---- MODULE Spec2Model ----
(***************************************************************************)
(* Model of the xtransport reliable transport: send window, receive        *)
(* window, retransmit manager, reassembler, sender and receiver channels   *)
(* and the protocol engine, each translated from the Rust source.          *)
(*                                                                         *)
(* Sequence numbers are u32 in the source.  TLC integers are 32 bits wide  *)
(* and signed, so the model keeps the same wrap-around arithmetic over a   *)
(* narrower space of 2^SeqBits values; HalfSpace plays the role of         *)
(* 0x7FFFFFFF.                                                             *)
(***************************************************************************)
EXTENDS Integers, Sequences, FiniteSets, TLC

VARIABLES
    sw,        \* SendWindow under test (buffer/window.rs)
    swOps,     \* number of operations applied to sw
    rm,        \* RetransmitManager under test (reliable/retransmit.rs)
    rmK,       \* consecutive timeouts reported since the last acknowledgement
    rmLog,     \* what the last check_timeouts call reported
    rmNow,     \* caller supplied timestamp of the retransmit manager
    rmSeq,     \* sequence number of the frame of the max-retransmit scenario
    ra,        \* Reassembler under test (reliable/reassembler.rs)
    raMsg,     \* the message whose fragments are fed, and its parameters
    raFed,     \* fragment indices fed so far
    raLast,    \* outcome of the last process_frame call
    raOut,     \* outcome of take_completed, once called
    raNow,     \* caller supplied timestamp of the reassembler
    eng,       \* the two protocol engines
    wire,      \* frames in flight, per receiving engine
    now,       \* caller supplied timestamp of the engines
    drops,     \* frames the carrier has dropped
    sentLog,   \* per engine: messages accepted by send, in order
    gotLog,    \* per engine: messages returned by recv, in order
    wireLog,   \* every frame ever written to the carrier, in order
    acked,     \* ghost: what the last processed ACK retired
    sn,        \* Sender under test (channel/sender.rs)
    snNow,     \* caller supplied timestamp of the sender
    rw,        \* ReceiveWindow under test (buffer/window.rs)
    rwGot,     \* ghost: sequences rw took as new and has not passed yet
    ret,       \* what the last call of the component under test returned
    pr,        \* Protocol endpoint under test (protocol.rs)
    prIn,      \* what the carrier of pr holds for it to read
    prLog,     \* ghost: packets staged for pr and packets its recv returned
    pc         \* position of a scripted scenario

swVars == <<sw, swOps>>
rmVars == <<rm, rmK, rmLog, rmNow, rmSeq>>
raVars == <<ra, raMsg, raFed, raLast, raOut, raNow>>
engVars == <<eng, wire, now, drops, sentLog, gotLog, wireLog, acked>>
protoVars == <<pr, prIn, prLog>>
unitVars == <<sn, snNow, rw, rwGot, ret, pr, prIn, prLog>>
vars == <<sw, swOps, rm, rmK, rmLog, rmNow, rmSeq, ra, raMsg, raFed, raLast, raOut, raNow,
          eng, wire, now, drops, sentLog, gotLog, wireLog, acked,
          sn, snNow, rw, rwGot, ret, pr, prIn, prLog, pc>>

----------------------------------------------------------------------------
(* Bounds of the model *)

SeqBits == 5
MaxPayload == 2
WindowSize == 2
MaxSWOps == 5
MaxSend == 2
MaxDrops == 1
MaxNow == 1
MaxTx == 3
MaxReg == 2
MaxRtNow == 7
MaxBackoff == 4
MaxFeed == 5
MaxEcho == 2
\* capacity of the windows and of the pending table: a power of two, as in
\* every instantiation of the source (4, 8, 16, 64)
WBits == 2
W == 2 ^ WBits
E == 2
N == 4

(* Program constants *)

F == 2048
MAX_PACKET_SIZE == 65535
FRAME_HEADER_SIZE == 24

SeqMod == 2 ^ SeqBits
HalfSpace == (SeqMod \div 2) - 1

----------------------------------------------------------------------------
(* Integer helpers: the wrapping and saturating arithmetic of the source *)

WrapAdd(a, b) == (a + b) % SeqMod
WrapSub(a, b) == (a - b + SeqMod) % SeqMod
SatSub(a, b) == IF a > b THEN a - b ELSE 0
Min(a, b) == IF a < b THEN a ELSE b

\* Body applied to v, v computed once: a local binding of the source
Let(v, Body(_)) == Body(v)

WireSize(f) == FRAME_HEADER_SIZE + Len(f.payload)

----------------------------------------------------------------------------
(* buffer/window.rs: SendWindow *)

NoFrame == [frame_type |-> "None", flags |-> 0, sequence |-> 0, ack |-> 0,
            packet_id |-> 0, fragment_index |-> 0, total_fragments |-> 0,
            payload |-> <<>>]

WindowEntry_new == [data |-> NoFrame, size |-> 0, sequence |-> 0, sent_time |-> 0,
                    transmit_count |-> 0, in_use |-> FALSE, acked |-> FALSE]

SendWindow_new(window_size, initial_seq) ==
    [entries |-> [i \in 0..(W - 1) |-> WindowEntry_new],
     base_seq |-> initial_seq,
     next_seq |-> initial_seq,
     in_flight |-> 0,
     window_size |-> Min(window_size, W)]

\* is_full looking at the capacity only
SW_is_full_at_capacity(w) == w.in_flight >= W

SW_is_full(w) == w.in_flight >= w.window_size

SW_available(w) == SatSub(w.window_size, w.in_flight)

SW_add_frame(w, frame_data, sent_time) ==
    IF SW_is_full(w) THEN [w |-> w, err |-> "WindowFull", seq |-> 0]
    ELSE IF WireSize(frame_data) > F THEN [w |-> w, err |-> "PayloadTooLarge", seq |-> 0]
    ELSE LET seq == w.next_seq
             index == seq % W
         IN [w |-> [w EXCEPT !.entries[index] =
                                [data |-> frame_data, size |-> WireSize(frame_data),
                                 sequence |-> seq, sent_time |-> sent_time,
                                 transmit_count |-> 1, in_use |-> TRUE, acked |-> FALSE],
                             !.next_seq = WrapAdd(w.next_seq, 1),
                             !.in_flight = w.in_flight + 1],
             err |-> "Ok", seq |-> seq]

RECURSIVE SW_ack_loop(_, _, _)
SW_ack_loop(w, ack_seq, n) ==
    IF w.base_seq = w.next_seq THEN [w |-> w, acked |-> n]
    ELSE IF WrapSub(ack_seq, w.base_seq) > HalfSpace THEN [w |-> w, acked |-> n]
    ELSE LET index == w.base_seq % W
             e == w.entries[index]
             hit == e.in_use /\ ~e.acked
             w1 == [w EXCEPT !.entries[index] =
                                IF hit THEN [e EXCEPT !.acked = TRUE, !.in_use = FALSE] ELSE e,
                             !.in_flight = IF hit THEN SatSub(w.in_flight, 1) ELSE w.in_flight,
                             !.base_seq = WrapAdd(w.base_seq, 1)]
         IN SW_ack_loop(w1, ack_seq, IF hit THEN n + 1 ELSE n)

\* ack_cumulative stopping before ack_seq instead of after it
SW_ack_cumulative_exclusive(w, ack_seq) == SW_ack_loop(w, WrapSub(ack_seq, 1), 0)

SW_ack_cumulative(w, ack_seq) == SW_ack_loop(w, ack_seq, 0)

SW_in_range(w, seq) ==
    LET diff == WrapSub(seq, w.base_seq)
    IN ~(diff > HalfSpace \/ diff >= w.window_size)

SW_ack_selective(w, seq) ==
    IF ~SW_in_range(w, seq) THEN [w |-> w, ok |-> FALSE]
    ELSE LET index == seq % W
             e == w.entries[index]
         IN IF e.in_use /\ e.sequence = seq /\ ~e.acked
            THEN [w |-> [w EXCEPT !.entries[index].acked = TRUE], ok |-> TRUE]
            ELSE [w |-> w, ok |-> FALSE]

SW_get_entry(w, seq) ==
    IF ~SW_in_range(w, seq) THEN [some |-> FALSE, entry |-> WindowEntry_new]
    ELSE LET e == w.entries[seq % W]
         IN IF e.in_use /\ e.sequence = seq
            THEN [some |-> TRUE, entry |-> e]
            ELSE [some |-> FALSE, entry |-> WindowEntry_new]

SW_mark_retransmitted(w, seq, sent_time) ==
    IF ~SW_in_range(w, seq) THEN [w |-> w, err |-> "SequenceOutOfRange"]
    ELSE LET index == seq % W
             e == w.entries[index]
         IN IF e.in_use /\ e.sequence = seq
            THEN [w |-> [w EXCEPT !.entries[index].transmit_count = e.transmit_count + 1,
                                  !.entries[index].sent_time = sent_time],
                  err |-> "Ok"]
            ELSE [w |-> w, err |-> "SequenceOutOfRange"]

SW_reset(w, initial_seq) ==
    [w EXCEPT !.entries = [i \in 0..(W - 1) |-> WindowEntry_new],
              !.base_seq = initial_seq,
              !.next_seq = initial_seq,
              !.in_flight = 0]

----------------------------------------------------------------------------
(* buffer/window.rs: ReceiveWindow *)

ReceiveWindow_new(window_size, initial_seq) ==
    [received |-> [i \in 0..(W - 1) |-> FALSE],
     expected_seq |-> initial_seq,
     highest_received |-> WrapSub(initial_seq, 1),
     window_size |-> Min(window_size, W)]

RW_is_in_window(w, seq) == WrapSub(seq, w.expected_seq) < w.window_size

RW_receive(w, seq) ==
    IF ~RW_is_in_window(w, seq)
    THEN LET diff == WrapSub(w.expected_seq, seq)
         IN IF diff < w.window_size /\ diff > 0
            THEN [w |-> w, err |-> "Ok", new |-> FALSE]
            ELSE [w |-> w, err |-> "SequenceOutOfRange", new |-> FALSE]
    ELSE LET index == seq % W
         IN IF w.received[index]
            THEN [w |-> w, err |-> "Ok", new |-> FALSE]
            ELSE LET diff == WrapSub(seq, w.highest_received)
                 IN [w |-> [w EXCEPT !.received[index] = TRUE,
                                     !.highest_received =
                                        IF diff < HalfSpace /\ diff > 0 THEN seq
                                        ELSE w.highest_received],
                     err |-> "Ok", new |-> TRUE]

\* an advance that passes one received sequence at most
RW_advance_once(w) ==
    IF w.received[w.expected_seq % W]
    THEN [w EXCEPT !.received[w.expected_seq % W] = FALSE,
                   !.expected_seq = WrapAdd(w.expected_seq, 1)]
    ELSE w

RECURSIVE RW_advance(_)
RW_advance(w) ==
    IF w.received[w.expected_seq % W]
    THEN RW_advance([w EXCEPT !.received[w.expected_seq % W] = FALSE,
                              !.expected_seq = WrapAdd(w.expected_seq, 1)])
    ELSE w

RW_reset(w, initial_seq) ==
    [w EXCEPT !.received = [i \in 0..(W - 1) |-> FALSE],
              !.expected_seq = initial_seq,
              !.highest_received = WrapSub(initial_seq, 1)]

----------------------------------------------------------------------------
(* reliable/retransmit.rs: RetransmitTimer and RetransmitManager *)

RetransmitTimer_new(base_timeout, max_timeout, backoff_factor) ==
    [base_timeout |-> base_timeout, max_timeout |-> max_timeout,
     current_timeout |-> base_timeout, backoff_factor |-> backoff_factor]

\* a timer that never backs off
Timer_backoff_none(t) == t

Timer_backoff(t) ==
    [t EXCEPT !.current_timeout = Min(t.current_timeout * t.backoff_factor, t.max_timeout)]

Timer_reset(t) == [t EXCEPT !.current_timeout = t.base_timeout]

Timer_update_rtt(t, rtt_ms) ==
    [t EXCEPT !.base_timeout = rtt_ms + (rtt_ms \div 2),
              !.current_timeout = rtt_ms + (rtt_ms \div 2)]

PendingFrame_new(sequence, timestamp) ==
    [sequence |-> sequence, last_sent |-> timestamp, attempts |-> 1, active |-> TRUE]

PendingFrame_empty == [sequence |-> 0, last_sent |-> 0, attempts |-> 0, active |-> FALSE]

RetransmitStats_new ==
    [frames_sent |-> 0, retransmissions |-> 0, failed_frames |-> 0,
     successful_deliveries |-> 0]

RetransmitManager_new(max_attempts, timer) ==
    [pending |-> [i \in 0..(W - 1) |-> PendingFrame_empty],
     count |-> 0,
     max_attempts |-> max_attempts,
     timer |-> timer,
     stats |-> RetransmitStats_new]

\* index of the first pending entry satisfying P, or W when there is none
FirstSlot(m, P(_)) ==
    IF \E i \in 0..(W - 1) : P(m.pending[i])
    THEN CHOOSE i \in 0..(W - 1) :
            P(m.pending[i]) /\ \A j \in 0..(i - 1) : ~P(m.pending[j])
    ELSE W

RM_register(m, sequence, timestamp) ==
    LET IsFree(e) == ~e.active
        i == FirstSlot(m, IsFree)
    IN IF i = W THEN [m |-> m, err |-> "BufferFull"]
       ELSE [m |-> [m EXCEPT !.pending[i] = PendingFrame_new(sequence, timestamp),
                             !.count = m.count + 1,
                             !.stats.frames_sent = m.stats.frames_sent + 1],
             err |-> "Ok"]

\* acknowledge leaving count as it is
RM_acknowledge_keeps_count(m, sequence, current_time) ==
    LET Match(e) == e.active /\ e.sequence = sequence
        i == FirstSlot(m, Match)
    IN IF i = W THEN [m |-> m, some |-> FALSE, rtt |-> 0]
       ELSE LET rtt == SatSub(current_time, m.pending[i].last_sent)
            IN [m |-> [m EXCEPT !.pending[i].active = FALSE,
                                !.stats.successful_deliveries =
                                    m.stats.successful_deliveries + 1,
                                !.timer = Timer_reset(Timer_update_rtt(m.timer, rtt))],
                some |-> TRUE, rtt |-> rtt]

RM_acknowledge(m, sequence, current_time) ==
    LET Match(e) == e.active /\ e.sequence = sequence
        i == FirstSlot(m, Match)
    IN IF i = W THEN [m |-> m, some |-> FALSE, rtt |-> 0]
       ELSE LET rtt == SatSub(current_time, m.pending[i].last_sent)
            IN [m |-> [m EXCEPT !.pending[i].active = FALSE,
                                !.count = SatSub(m.count, 1),
                                !.stats.successful_deliveries =
                                    m.stats.successful_deliveries + 1,
                                !.timer = Timer_reset(Timer_update_rtt(m.timer, rtt))],
                some |-> TRUE, rtt |-> rtt]

\* the sequences acknowledge_cumulative collects, in table order
RECURSIVE RM_to_ack(_, _, _)
RM_to_ack(m, ack_seq, i) ==
    IF i = W THEN <<>>
    ELSE LET e == m.pending[i]
             take == e.active /\ WrapSub(ack_seq, e.sequence) < HalfSpace
         IN (IF take THEN <<e.sequence>> ELSE <<>>) \o RM_to_ack(m, ack_seq, i + 1)

RECURSIVE RM_ack_each(_, _, _)
RM_ack_each(m, seqs, current_time) ==
    IF seqs = <<>> THEN m
    ELSE RM_ack_each(RM_acknowledge(m, Head(seqs), current_time).m, Tail(seqs), current_time)

RM_acknowledge_cumulative(m, ack_seq, current_time) ==
    RM_ack_each(m, RM_to_ack(m, ack_seq, 0), current_time)

\* the loop of check_timeouts over the table; timeout is read once, before it
RECURSIVE RM_timeout_loop(_, _, _, _, _, _)
RM_timeout_loop(m, current_time, timeout, i, reports, n) ==
    IF i = W THEN [m |-> m, reports |-> reports, count |-> n]
    ELSE LET e == m.pending[i]
             expired == e.active /\ SatSub(current_time, e.last_sent) >= timeout
             exceeded == e.attempts >= m.max_attempts
             m1 == IF expired /\ exceeded
                   THEN [m EXCEPT !.pending[i].active = FALSE,
                                  !.count = SatSub(m.count, 1),
                                  !.stats.failed_frames = m.stats.failed_frames + 1]
                   ELSE m
         IN RM_timeout_loop(m1, current_time, timeout, i + 1,
                            IF expired
                            THEN Append(reports, [seq |-> e.sequence, exceeded |-> exceeded])
                            ELSE reports,
                            IF expired /\ ~exceeded THEN n + 1 ELSE n)

RM_check_timeouts(m, current_time) ==
    Let(RM_timeout_loop(m, current_time, m.timer.current_timeout, 0, <<>>, 0), LAMBDA r :
        [m |-> IF r.count > 0 THEN [r.m EXCEPT !.timer = Timer_backoff(r.m.timer)] ELSE r.m,
         reports |-> r.reports,
         count |-> r.count])

RM_mark_retransmitted(m, sequence, timestamp) ==
    LET Match(e) == e.active /\ e.sequence = sequence
        i == FirstSlot(m, Match)
    IN IF i = W THEN [m |-> m, err |-> "SequenceOutOfRange"]
       ELSE [m |-> [m EXCEPT !.pending[i].last_sent = timestamp,
                             !.pending[i].attempts = m.pending[i].attempts + 1,
                             !.stats.retransmissions = m.stats.retransmissions + 1],
             err |-> "Ok"]

RM_reset(m) ==
    [m EXCEPT !.pending = [i \in 0..(W - 1) |-> PendingFrame_empty],
              !.count = 0,
              !.timer = Timer_reset(m.timer)]

RECURSIVE RM_pending_from(_, _)
RM_pending_from(m, i) ==
    IF i = W THEN <<>>
    ELSE (IF m.pending[i].active THEN <<m.pending[i].sequence>> ELSE <<>>)
         \o RM_pending_from(m, i + 1)

RM_pending_sequences(m) == RM_pending_from(m, 0)

----------------------------------------------------------------------------
(* reliable/reassembler.rs: ReassemblyEntry and Reassembler *)

NoSize == [some |-> FALSE, v |-> 0]

ReassemblyEntry_new ==
    [packet_id |-> 0, buffer |-> [i \in 0..(N - 1) |-> 0], len |-> 0,
     expected_size |-> NoSize, total_fragments |-> 0, received_fragments |-> {},
     received_count |-> 0, start_time |-> 0, in_use |-> FALSE]

Entry_init(e, packet_id, total_fragments, timestamp) ==
    [e EXCEPT !.packet_id = packet_id, !.len = 0, !.expected_size = NoSize,
              !.total_fragments = total_fragments, !.received_fragments = {},
              !.received_count = 0, !.start_time = timestamp, !.in_use = TRUE]

\* an entry that stores each fragment behind the bytes it already holds, in
\* order of arrival, instead of at fragment_index * max_fragment_size
Entry_add_fragment_appending(e, fragment_index, total_fragments, payload, max_fragment_size) ==
    IF fragment_index >= total_fragments
    THEN [e |-> e, err |-> "InvalidFragmentIndex", complete |-> FALSE]
    ELSE IF fragment_index \in e.received_fragments
    THEN [e |-> e, err |-> "Ok", complete |-> FALSE]
    ELSE LET offset == e.len
             end == offset + Len(payload)
         IN IF end > N
            THEN [e |-> e, err |-> "BufferTooSmall", complete |-> FALSE]
            ELSE [e |-> [e EXCEPT
                           !.buffer = [i \in 0..(N - 1) |->
                                         IF i >= offset /\ i < end
                                         THEN payload[i - offset + 1]
                                         ELSE e.buffer[i]],
                           !.len = end,
                           !.received_fragments = e.received_fragments \cup {fragment_index},
                           !.received_count = e.received_count + 1,
                           !.expected_size =
                               IF fragment_index = total_fragments - 1
                               THEN [some |-> TRUE, v |-> end]
                               ELSE e.expected_size],
                  err |-> "Ok",
                  complete |-> (e.received_count + 1 = total_fragments)]

Entry_add_fragment(e, fragment_index, total_fragments, payload, max_fragment_size) ==
    IF fragment_index >= total_fragments
    THEN [e |-> e, err |-> "InvalidFragmentIndex", complete |-> FALSE]
    ELSE IF fragment_index \in e.received_fragments
    THEN [e |-> e, err |-> "Ok", complete |-> FALSE]
    ELSE LET offset == fragment_index * max_fragment_size
             end == offset + Len(payload)
         IN IF end > N
            THEN [e |-> e, err |-> "BufferTooSmall", complete |-> FALSE]
            ELSE LET e1 == [e EXCEPT
                              !.buffer = [i \in 0..(N - 1) |->
                                            IF i >= offset /\ i < end
                                            THEN payload[i - offset + 1]
                                            ELSE e.buffer[i]],
                              !.received_fragments = e.received_fragments \cup {fragment_index},
                              !.received_count = e.received_count + 1,
                              !.expected_size =
                                  IF fragment_index = total_fragments - 1
                                  THEN [some |-> TRUE, v |-> end]
                                  ELSE e.expected_size]
                 IN [e |-> e1, err |-> "Ok",
                     complete |-> (e1.received_count = total_fragments)]

Entry_get_data(e) ==
    IF e.received_count = e.total_fragments
    THEN LET size == IF e.expected_size.some THEN e.expected_size.v ELSE e.len
         IN [some |-> TRUE, data |-> [i \in 1..size |-> e.buffer[i - 1]]]
    ELSE [some |-> FALSE, data |-> <<>>]

Entry_clear(e) ==
    [e EXCEPT !.in_use = FALSE, !.len = 0, !.expected_size = NoSize,
              !.received_count = 0, !.received_fragments = {}]

\* an entry that times out only after more than the timeout has passed
Entry_is_timed_out_late(e, current_time, timeout) ==
    e.in_use /\ SatSub(current_time, e.start_time) > timeout

Entry_is_timed_out(e, current_time, timeout) ==
    e.in_use /\ SatSub(current_time, e.start_time) >= timeout

Reassembler_new(max_fragment_size, timeout) ==
    [entries |-> [i \in 0..(E - 1) |-> ReassemblyEntry_new],
     max_fragment_size |-> max_fragment_size,
     timeout |-> timeout,
     active_count |-> 0]

\* index of the first reassembly entry satisfying P, or E when there is none
FirstEntry(r, P(_)) ==
    IF \E i \in 0..(E - 1) : P(r.entries[i])
    THEN CHOOSE i \in 0..(E - 1) :
            P(r.entries[i]) /\ \A j \in 0..(i - 1) : ~P(r.entries[j])
    ELSE E

\* find_or_create_entry recycling the first entry in use when none is free,
\* timed out or not
RA_find_or_create_entry_evicting(r, packet_id, total_fragments, timestamp) ==
    LET Existing(e) == e.in_use /\ e.packet_id = packet_id
        Free(e) == ~e.in_use
        Stale(e) == e.in_use
        i1 == FirstEntry(r, Existing)
        i2 == FirstEntry(r, Free)
        i3 == FirstEntry(r, Stale)
    IN IF i1 < E THEN [r |-> r, err |-> "Ok", idx |-> i1]
       ELSE IF i2 < E
       THEN [r |-> [r EXCEPT !.entries[i2] =
                                Entry_init(r.entries[i2], packet_id, total_fragments, timestamp),
                             !.active_count = r.active_count + 1],
             err |-> "Ok", idx |-> i2]
       ELSE IF i3 < E
       THEN [r |-> [r EXCEPT !.entries[i3] =
                                Entry_init(r.entries[i3], packet_id, total_fragments, timestamp)],
             err |-> "Ok", idx |-> i3]
       ELSE [r |-> r, err |-> "BufferFull", idx |-> E]

RA_find_or_create_entry(r, packet_id, total_fragments, timestamp) ==
    LET Existing(e) == e.in_use /\ e.packet_id = packet_id
        Free(e) == ~e.in_use
        Stale(e) == Entry_is_timed_out(e, timestamp, r.timeout)
        i1 == FirstEntry(r, Existing)
        i2 == FirstEntry(r, Free)
        i3 == FirstEntry(r, Stale)
    IN IF i1 < E THEN [r |-> r, err |-> "Ok", idx |-> i1]
       ELSE IF i2 < E
       THEN [r |-> [r EXCEPT !.entries[i2] =
                                Entry_init(r.entries[i2], packet_id, total_fragments, timestamp),
                             !.active_count = r.active_count + 1],
             err |-> "Ok", idx |-> i2]
       ELSE IF i3 < E
       THEN [r |-> [r EXCEPT !.entries[i3] =
                                Entry_init(r.entries[i3], packet_id, total_fragments, timestamp)],
             err |-> "Ok", idx |-> i3]
       ELSE [r |-> r, err |-> "BufferFull", idx |-> E]

RA_process_frame(r, frame, timestamp) ==
    IF frame.total_fragments = 1
    THEN [r |-> r, err |-> "Ok", some |-> TRUE, packet_id |-> frame.packet_id]
    ELSE Let(RA_find_or_create_entry(r, frame.packet_id, frame.total_fragments, timestamp),
             LAMBDA f :
         IF f.err # "Ok"
         THEN [r |-> f.r, err |-> f.err, some |-> FALSE, packet_id |-> frame.packet_id]
         ELSE Let(Entry_add_fragment(f.r.entries[f.idx], frame.fragment_index,
                                     frame.total_fragments, frame.payload,
                                     r.max_fragment_size),
                  LAMBDA a :
              [r |-> [f.r EXCEPT !.entries[f.idx] = a.e],
               err |-> a.err,
               some |-> (a.err = "Ok" /\ a.complete),
               packet_id |-> frame.packet_id]))

RA_take_completed(r, packet_id, buf_len) ==
    LET Done(e) == e.in_use /\ e.packet_id = packet_id /\ Entry_get_data(e).some
        i == FirstEntry(r, Done)
    IN IF i = E THEN [r |-> r, err |-> "IncompleteFragment", data |-> <<>>]
       ELSE Let(Entry_get_data(r.entries[i]).data, LAMBDA data :
            IF buf_len < Len(data)
            THEN [r |-> r, err |-> "BufferTooSmall", data |-> <<>>]
            ELSE [r |-> [r EXCEPT !.entries[i] = Entry_clear(r.entries[i]),
                                  !.active_count = SatSub(r.active_count, 1)],
                  err |-> "Ok", data |-> data])

RECURSIVE RA_cleanup_from(_, _, _, _)
RA_cleanup_from(r, current_time, i, cleaned) ==
    IF i = E THEN [r |-> r, cleaned |-> cleaned]
    ELSE IF Entry_is_timed_out(r.entries[i], current_time, r.timeout)
    THEN RA_cleanup_from([r EXCEPT !.entries[i] = Entry_clear(r.entries[i]),
                                   !.active_count = SatSub(r.active_count, 1)],
                         current_time, i + 1, cleaned + 1)
    ELSE RA_cleanup_from(r, current_time, i + 1, cleaned)

RA_cleanup_timeout(r, current_time) == RA_cleanup_from(r, current_time, 0, 0)

----------------------------------------------------------------------------
(* core/packet.rs and core/frame.rs: fragmentation and frame constructors *)

Packet_fragment_count(data, max_payload) ==
    IF Len(data) = 0 THEN 1
    ELSE (Len(data) + max_payload - 1) \div max_payload

Packet_fragment_data(data, index, max_payload) ==
    LET start == index * max_payload
        end == Min(start + max_payload, Len(data))
    IN SubSeq(data, start + 1, end)

FIRST_FRAGMENT == 1
LAST_FRAGMENT == 2

Frame_new_data(sequence, ack, packet_id, fragment_index, total_fragments, payload) ==
    [frame_type |-> "Data",
     flags |-> (IF fragment_index = 0 THEN FIRST_FRAGMENT ELSE 0)
               + (IF fragment_index = total_fragments - 1 THEN LAST_FRAGMENT ELSE 0),
     sequence |-> sequence, ack |-> ack, packet_id |-> packet_id,
     fragment_index |-> fragment_index, total_fragments |-> total_fragments,
     payload |-> payload]

Frame_control(type, sequence, ack) ==
    [frame_type |-> type, flags |-> 0, sequence |-> sequence, ack |-> ack,
     packet_id |-> 0, fragment_index |-> 0, total_fragments |-> 0, payload |-> <<>>]

Frame_new_ack(ack) == Frame_control("Ack", 0, ack)
Frame_new_ping(sequence) == Frame_control("Ping", sequence, 0)
Frame_new_pong(sequence) == Frame_control("Pong", sequence, 0)
Frame_new_sync(sequence) == Frame_control("Sync", sequence, 0)
Frame_new_sync_ack(sequence, ack) == Frame_control("SyncAck", sequence, ack)
Frame_new_fin(sequence) == Frame_control("Fin", sequence, 0)

----------------------------------------------------------------------------
(* config.rs: the configuration the engines of the model are built with *)

Config ==
    [max_frame_size |-> FRAME_HEADER_SIZE + MaxPayload,
     window_size |-> WindowSize,
     retransmit_timeout_ms |-> 100,
     max_retransmit |-> 2,
     fragment_timeout_ms |-> 300]

Config_max_payload_size(c) == c.max_frame_size - FRAME_HEADER_SIZE

----------------------------------------------------------------------------
(* channel/sender.rs: Sender.  The scratch frame_buf is not state: every   *)
(* use overwrites it before reading it.  Frames written to the carrier are *)
(* returned in out, in the order written.                                  *)

Sender_new(c) ==
    [window |-> SendWindow_new(c.window_size, 0),
     retransmit |-> RetransmitManager_new(c.max_retransmit,
                        RetransmitTimer_new(c.retransmit_timeout_ms,
                                            c.retransmit_timeout_ms * 30, 2)),
     next_packet_id |-> 0,
     ack_num |-> 0,
     max_payload |-> Config_max_payload_size(c),
     state |-> "Open"]

Sender_set_ack(s, ack) == [s EXCEPT !.ack_num = ack]

RECURSIVE Sender_send_fragments(_, _, _, _, _, _)
Sender_send_fragments(s, data, fragment_count, timestamp, i, out) ==
    IF i = fragment_count THEN [s |-> s, out |-> out, err |-> "Ok"]
    ELSE LET frame == Frame_new_data(s.window.next_seq, s.ack_num, s.next_packet_id,
                                     i % 256, fragment_count % 256,
                                     Packet_fragment_data(data, i, s.max_payload))
         IN IF WireSize(frame) > F
            THEN [s |-> s, out |-> out, err |-> "BufferTooSmall"]
            ELSE Let(SW_add_frame(s.window, frame, timestamp), LAMBDA a :
                 Let(RM_register(s.retransmit, frame.sequence, timestamp), LAMBDA g :
                 IF a.err # "Ok"
                 THEN [s |-> s, out |-> Append(out, frame), err |-> a.err]
                 ELSE IF g.err # "Ok"
                 THEN [s |-> [s EXCEPT !.window = a.w],
                       out |-> Append(out, frame), err |-> g.err]
                 ELSE Sender_send_fragments(
                          [s EXCEPT !.window = a.w, !.retransmit = g.m],
                          data, fragment_count, timestamp, i + 1, Append(out, frame))))

\* send_packet asking only for one free slot before it writes
Sender_send_packet_unreserved(s, data, timestamp) ==
    IF s.state # "Open" THEN [s |-> s, out |-> <<>>, err |-> "ChannelClosed", frames |-> 0]
    ELSE IF Len(data) > MAX_PACKET_SIZE
    THEN [s |-> s, out |-> <<>>, err |-> "PacketTooLarge", frames |-> 0]
    ELSE LET fragment_count == Packet_fragment_count(data, s.max_payload)
         IN IF SW_available(s.window) < 1
            THEN [s |-> s, out |-> <<>>, err |-> "WindowFull", frames |-> 0]
            ELSE Let(Sender_send_fragments(s, data, fragment_count, timestamp, 0, <<>>),
                     LAMBDA r :
                 IF r.err # "Ok"
                 THEN [s |-> r.s, out |-> r.out, err |-> r.err, frames |-> 0]
                 ELSE [s |-> [r.s EXCEPT !.next_packet_id = (s.next_packet_id + 1) % 65536],
                       out |-> r.out, err |-> "Ok", frames |-> fragment_count])

Sender_send_packet(s, data, timestamp) ==
    IF s.state # "Open" THEN [s |-> s, out |-> <<>>, err |-> "ChannelClosed", frames |-> 0]
    ELSE IF Len(data) > MAX_PACKET_SIZE
    THEN [s |-> s, out |-> <<>>, err |-> "PacketTooLarge", frames |-> 0]
    ELSE LET fragment_count == Packet_fragment_count(data, s.max_payload)
         IN IF SW_available(s.window) < fragment_count
            THEN [s |-> s, out |-> <<>>, err |-> "WindowFull", frames |-> 0]
            ELSE Let(Sender_send_fragments(s, data, fragment_count, timestamp, 0, <<>>),
                     LAMBDA r :
                 IF r.err # "Ok"
                 THEN [s |-> r.s, out |-> r.out, err |-> r.err, frames |-> 0]
                 ELSE [s |-> [r.s EXCEPT !.next_packet_id = (s.next_packet_id + 1) % 65536],
                       out |-> r.out, err |-> "Ok", frames |-> fragment_count])

Sender_process_ack(s, ack, timestamp) ==
    [s EXCEPT !.window = SW_ack_cumulative(s.window, ack).w,
              !.retransmit = RM_acknowledge_cumulative(s.retransmit, ack, timestamp)]

Sender_process_selective_ack(s, sequence, timestamp) ==
    [s EXCEPT !.window = SW_ack_selective(s.window, sequence).w,
              !.retransmit = RM_acknowledge(s.retransmit, sequence, timestamp).m]

\* the callback of check_timeouts: rewrite the stored bytes of each frame reported
\* as timed out and not exceeded
RECURSIVE Sender_rewrite(_, _)
Sender_rewrite(w, reports) ==
    IF reports = <<>> THEN <<>>
    ELSE LET r == Head(reports)
             g == SW_get_entry(w, r.seq)
         IN (IF ~r.exceeded /\ g.some THEN <<g.entry.data>> ELSE <<>>)
            \o Sender_rewrite(w, Tail(reports))

RECURSIVE Sender_mark_all(_, _, _)
Sender_mark_all(s, seqs, timestamp) ==
    IF seqs = <<>> THEN s
    ELSE Sender_mark_all(
             [s EXCEPT !.retransmit = RM_mark_retransmitted(s.retransmit, Head(seqs), timestamp).m,
                       !.window = SW_mark_retransmitted(s.window, Head(seqs), timestamp).w],
             Tail(seqs), timestamp)

Sender_check_retransmit(s, timestamp) ==
    Let(RM_check_timeouts(s.retransmit, timestamp), LAMBDA c :
    Let(Sender_rewrite(s.window, c.reports), LAMBDA out :
        [s |-> Sender_mark_all([s EXCEPT !.retransmit = c.m],
                               RM_pending_sequences(c.m), timestamp),
         out |-> out, err |-> "Ok", count |-> Len(out)]))

Sender_send_ping(s, timestamp) ==
    LET seq == s.window.next_seq
    IN Let(RM_register(s.retransmit, seq, timestamp), LAMBDA g :
           [s |-> [s EXCEPT !.retransmit = g.m], out |-> <<Frame_new_ping(seq)>>,
            err |-> g.err, seq |-> seq])

Sender_close(s) ==
    IF s.state # "Open" THEN [s |-> s, out |-> <<>>, err |-> "Ok"]
    ELSE [s |-> [s EXCEPT !.state = "Closing"],
          out |-> <<Frame_new_fin(s.window.next_seq)>>, err |-> "Ok"]

Sender_reset(s) ==
    [s EXCEPT !.window = SW_reset(s.window, 0),
              !.retransmit = RM_reset(s.retransmit),
              !.next_packet_id = 0,
              !.ack_num = 0,
              !.state = "Open"]

----------------------------------------------------------------------------
(* channel/receiver.rs: Receiver *)

Receiver_new(c) ==
    [window |-> ReceiveWindow_new(c.window_size, 0),
     reassembler |-> Reassembler_new(Config_max_payload_size(c), c.fragment_timeout_ms),
     state |-> "Open",
     recv_buf |-> [i \in 0..(N - 1) |-> 0],
     recv_len |-> 0,
     packet_ready |-> FALSE,
     current_packet_id |-> 0]

\* dst[..Len(data)] := data
CopyInto(buf, data) ==
    [i \in 0..(N - 1) |-> IF i < Len(data) THEN data[i + 1] ELSE buf[i]]

Receiver_process_data_frame(r, frame, timestamp) ==
    Let(RW_receive(r.window, frame.sequence), LAMBDA w :
    IF w.err # "Ok" THEN [r |-> r, err |-> w.err, ready |-> FALSE]
    ELSE IF ~w.new THEN [r |-> r, err |-> "Ok", ready |-> FALSE]
    ELSE Let(RA_process_frame(r.reassembler, frame, timestamp), LAMBDA a :
         Let([r EXCEPT !.window = w.w, !.reassembler = a.r], LAMBDA r2 :
         IF a.err # "Ok" THEN [r |-> r2, err |-> a.err, ready |-> FALSE]
         ELSE IF ~a.some THEN [r |-> r2, err |-> "Ok", ready |-> FALSE]
         ELSE IF frame.total_fragments = 1
         THEN IF Len(frame.payload) > N
              THEN [r |-> r2, err |-> "BufferTooSmall", ready |-> FALSE]
              ELSE [r |-> [r2 EXCEPT !.recv_buf = CopyInto(r.recv_buf, frame.payload),
                                     !.recv_len = Len(frame.payload),
                                     !.packet_ready = TRUE,
                                     !.current_packet_id = a.packet_id,
                                     !.window = RW_advance(w.w)],
                    err |-> "Ok", ready |-> TRUE]
         ELSE Let(RA_take_completed(a.r, a.packet_id, N), LAMBDA t :
              IF t.err # "Ok"
              THEN [r |-> [r2 EXCEPT !.reassembler = t.r], err |-> t.err,
                    ready |-> FALSE]
              ELSE [r |-> [r2 EXCEPT !.reassembler = t.r,
                                     !.recv_buf = CopyInto(r.recv_buf, t.data),
                                     !.recv_len = Len(t.data),
                                     !.packet_ready = TRUE,
                                     !.current_packet_id = a.packet_id,
                                     !.window = RW_advance(w.w)],
                    err |-> "Ok", ready |-> TRUE]))))

Receiver_process_frame(r, frame, timestamp) ==
    CASE frame.frame_type = "Data" -> Receiver_process_data_frame(r, frame, timestamp)
      [] frame.frame_type = "Fin" ->
            [r |-> [r EXCEPT !.state = "Closing"], err |-> "Ok", ready |-> FALSE]
      [] frame.frame_type = "Reset" ->
            [r |-> [r EXCEPT !.state = "Closed"], err |-> "Ok", ready |-> FALSE]
      [] OTHER -> [r |-> r, err |-> "Ok", ready |-> FALSE]

Receiver_read(r, buf_len) ==
    IF ~r.packet_ready THEN [r |-> r, err |-> "WouldBlock", data |-> <<>>]
    ELSE IF buf_len < r.recv_len THEN [r |-> r, err |-> "BufferTooSmall", data |-> <<>>]
    ELSE [r |-> [r EXCEPT !.packet_ready = FALSE, !.recv_len = 0],
          err |-> "Ok",
          data |-> [i \in 1..r.recv_len |-> r.recv_buf[i - 1]]]

Receiver_cleanup(r, timestamp) ==
    [r EXCEPT !.reassembler = RA_cleanup_timeout(r.reassembler, timestamp).r]

Receiver_reset(r) ==
    [r EXCEPT !.window = RW_reset(r.window, 0),
              !.state = "Open",
              !.recv_len = 0,
              !.packet_ready = FALSE]

----------------------------------------------------------------------------
(* protocol.rs: Protocol.  The carrier hands over whole frames, so the     *)
(* partial-frame buffer (recv_frame_buf, recv_pos, recv_len) is empty at   *)
(* every call boundary and is not carried in the state.  last_activity is  *)
(* written by every call and read by none, so it is not carried either.    *)

ProtocolStats_default ==
    [packets_sent |-> 0, packets_received |-> 0, frames_sent |-> 0,
     frames_received |-> 0, bytes_sent |-> 0, bytes_received |-> 0,
     checksum_errors |-> 0]

Protocol_new(c) ==
    [config |-> c,
     sender |-> Sender_new(c),
     receiver |-> Receiver_new(c),
     state |-> "Idle",
     local_seq |-> 0,
     remote_seq |-> 0,
     stats |-> ProtocolStats_default]

Protocol_connect(p, timestamp) ==
    IF p.state # "Idle" THEN [p |-> p, out |-> <<>>, err |-> "InvalidState"]
    ELSE [p |-> [p EXCEPT !.state = "Connecting"],
          out |-> <<Frame_new_sync(p.local_seq)>>, err |-> "Ok"]

\* an accept that acknowledges the SYNC's own sequence number instead of the next
Protocol_accept_same_seq(p, timestamp) ==
    IF p.state # "Accepting" THEN [p |-> p, out |-> <<>>, err |-> "InvalidState"]
    ELSE [p |-> [p EXCEPT !.state = "Connected"],
          out |-> <<Frame_new_sync_ack(p.local_seq, p.remote_seq)>>,
          err |-> "Ok"]

Protocol_accept(p, timestamp) ==
    IF p.state # "Accepting" THEN [p |-> p, out |-> <<>>, err |-> "InvalidState"]
    ELSE [p |-> [p EXCEPT !.state = "Connected"],
          out |-> <<Frame_new_sync_ack(p.local_seq, WrapAdd(p.remote_seq, 1))>>,
          err |-> "Ok"]

Protocol_send(p, data, timestamp) ==
    IF p.state # "Connected" THEN [p |-> p, out |-> <<>>, err |-> "InvalidState"]
    ELSE Let(Sender_send_packet(Sender_set_ack(p.sender, p.receiver.window.expected_seq),
                                data, timestamp),
             LAMBDA r :
         IF r.err # "Ok"
         THEN [p |-> [p EXCEPT !.sender = r.s], out |-> r.out, err |-> r.err]
         ELSE [p |-> [p EXCEPT !.sender = r.s,
                               !.stats.packets_sent = p.stats.packets_sent + 1,
                               !.stats.frames_sent = p.stats.frames_sent + r.frames,
                               !.stats.bytes_sent = p.stats.bytes_sent + Len(data)],
               out |-> r.out, err |-> "Ok"])

\* sequences the sender still tracks: in the send window, and in the pending table
Sender_in_window(s) ==
    {s.window.entries[i].sequence : i \in {j \in 0..(W - 1) :
        s.window.entries[j].in_use /\ ~s.window.entries[j].acked}}

Sender_pending(s) ==
    {s.retransmit.pending[i].sequence : i \in {j \in 0..(W - 1) :
        s.retransmit.pending[j].active}}

Protocol_handle_frame(p, frame, timestamp) ==
    LET p0 == p
        t == frame.frame_type
    IN CASE t = "Sync" ->
              [p |-> [p0 EXCEPT !.remote_seq = frame.sequence, !.state = "Accepting"],
               out |-> <<>>, err |-> "Ok", acks |-> <<>>]
         [] t = "SyncAck" ->
              IF p.state = "Connecting"
              THEN [p |-> [p0 EXCEPT !.remote_seq = frame.sequence, !.state = "Connected"],
                    out |-> <<Frame_new_ack(WrapAdd(frame.sequence, 1))>>,
                    err |-> "Ok", acks |-> <<>>]
              ELSE [p |-> p0, out |-> <<>>, err |-> "Ok", acks |-> <<>>]
         [] t = "Data" ->
              Let(Receiver_process_frame(p.receiver, frame, timestamp), LAMBDA r :
                  IF r.err # "Ok"
                  THEN [p |-> [p0 EXCEPT !.receiver = r.r], out |-> <<>>, err |-> r.err,
                        acks |-> <<>>]
                  ELSE [p |-> [p0 EXCEPT !.receiver = r.r],
                        out |-> IF r.ready
                                THEN <<Frame_new_ack(r.r.window.expected_seq)>>
                                ELSE <<>>,
                        err |-> "Ok", acks |-> <<>>])
         [] t = "Ack" ->
              Let(Sender_process_ack(p.sender, frame.ack, timestamp), LAMBDA s1 :
                  [p |-> [p0 EXCEPT !.sender = s1], out |-> <<>>, err |-> "Ok",
                   acks |-> <<[n |-> frame.ack,
                               retired |-> (Sender_in_window(p.sender) \ Sender_in_window(s1))
                                           \cup (Sender_pending(p.sender) \ Sender_pending(s1))]>>])
         [] t = "Ping" ->
              [p |-> p0, out |-> <<Frame_new_pong(frame.sequence)>>, err |-> "Ok",
               acks |-> <<>>]
         [] t = "Pong" ->
              [p |-> [p0 EXCEPT !.sender =
                          Sender_process_selective_ack(p.sender, frame.sequence, timestamp)],
               out |-> <<>>, err |-> "Ok", acks |-> <<>>]
         [] t = "Fin" ->
              [p |-> [p0 EXCEPT !.state = "Closing"],
               out |-> <<Frame_new_ack(WrapAdd(frame.sequence, 1))>>,
               err |-> "Ok", acks |-> <<>>]
         [] t = "FinAck" ->
              [p |-> [p0 EXCEPT !.state = "Closed"], out |-> <<>>, err |-> "Ok",
               acks |-> <<>>]
         [] t = "Reset" ->
              [p |-> [p0 EXCEPT !.state = "Closed"], out |-> <<>>, err |-> "Ok",
               acks |-> <<>>]
         [] OTHER ->
              [p |-> p0, out |-> <<>>, err |-> "Ok", acks |-> <<>>]

\* the loop of process_incoming: inq are the frames the carrier holds for this
\* engine; rest are those still unread when the call returns
RECURSIVE Protocol_incoming_loop(_, _, _, _, _)
Protocol_incoming_loop(p, inq, timestamp, out, acks) ==
    IF inq = <<>> THEN [p |-> p, out |-> out, err |-> "Ok", rest |-> <<>>, acks |-> acks]
    ELSE Let(Protocol_handle_frame(p, Head(inq), timestamp), LAMBDA h :
         IF h.err # "Ok"
         THEN [p |-> h.p, out |-> out \o h.out, err |-> h.err, rest |-> Tail(inq),
               acks |-> acks \o h.acks]
         ELSE Protocol_incoming_loop(
                  [h.p EXCEPT !.stats.frames_received = h.p.stats.frames_received + 1],
                  Tail(inq), timestamp, out \o h.out, acks \o h.acks))

Protocol_process_incoming(p, inq, timestamp) ==
    Protocol_incoming_loop(p, inq, timestamp, <<>>, <<>>)

Protocol_recv(p, inq, buf_len, timestamp) ==
    Let(Protocol_process_incoming(p, inq, timestamp), LAMBDA i :
    IF i.err # "Ok"
    THEN [p |-> i.p, out |-> i.out, err |-> i.err, rest |-> i.rest, acks |-> i.acks,
          data |-> <<>>]
    ELSE IF i.p.receiver.packet_ready
    THEN Let(Receiver_read(i.p.receiver, buf_len), LAMBDA r :
         IF r.err # "Ok"
         THEN [p |-> i.p, out |-> i.out, err |-> r.err, rest |-> i.rest,
               acks |-> i.acks, data |-> <<>>]
         ELSE [p |-> [i.p EXCEPT !.receiver = r.r,
                                 !.stats.packets_received =
                                     i.p.stats.packets_received + 1,
                                 !.stats.bytes_received =
                                     i.p.stats.bytes_received + Len(r.data)],
               out |-> i.out, err |-> "Ok", rest |-> i.rest, acks |-> i.acks,
               data |-> r.data])
    ELSE [p |-> i.p, out |-> i.out, err |-> "WouldBlock", rest |-> i.rest,
          acks |-> i.acks, data |-> <<>>])

Protocol_poll(p, inq, timestamp) ==
    Let(Protocol_process_incoming(p, inq, timestamp), LAMBDA i :
    IF i.err # "Ok" THEN i
    ELSE Let(Sender_check_retransmit(i.p.sender, timestamp), LAMBDA c :
         [p |-> [i.p EXCEPT !.sender = c.s,
                            !.receiver = Receiver_cleanup(i.p.receiver, timestamp)],
          out |-> i.out \o c.out, err |-> "Ok", rest |-> i.rest, acks |-> i.acks]))

Protocol_close(p) ==
    IF p.state # "Connected" THEN [p |-> p, out |-> <<>>, err |-> "Ok"]
    ELSE Let(Sender_close(p.sender), LAMBDA c :
         [p |-> [p EXCEPT !.sender = c.s, !.state = "Closing"],
          out |-> c.out, err |-> "Ok"])

\* a ping that does not look at the connection state
Protocol_ping_any_state(p, timestamp) ==
    Let(Sender_send_ping(p.sender, timestamp), LAMBDA g :
        [p |-> [p EXCEPT !.sender = g.s], out |-> g.out, err |-> g.err])

Protocol_ping(p, timestamp) ==
    IF p.state # "Connected" THEN [p |-> p, out |-> <<>>, err |-> "InvalidState"]
    ELSE Let(Sender_send_ping(p.sender, timestamp), LAMBDA g :
         [p |-> [p EXCEPT !.sender = g.s], out |-> g.out, err |-> g.err])

Protocol_reset(p) ==
    [p EXCEPT !.sender = Sender_reset(p.sender),
              !.receiver = Receiver_reset(p.receiver),
              !.state = "Idle",
              !.stats = ProtocolStats_default]

----------------------------------------------------------------------------
(* Two engines over a duplex carrier that delivers whole frames in order   *)
(* and may drop them.  wire[e] holds the frames written by the peer of e   *)
(* that e has not read yet.  In Spec the client connects, the server       *)
(* accepts and both exchange messages; in SpecConn either side may open    *)
(* and close the connection.                                               *)

Engines == {"c", "s"}
Peer(e) == IF e = "c" THEN "s" ELSE "c"

\* the k-th message engine e sends, of the given length: its bytes are its own
MsgOf(e, k, len) == [j \in 1..len |-> (IF e = "c" THEN 100 ELSE 200) + 10 * k + j]
MsgLens == {1, MaxPayload + 1}

\* has the receive window of r taken sequence s
RW_has(w, s) ==
    IF WrapSub(s, w.expected_seq) < w.window_size THEN w.received[s % W]
    ELSE WrapSub(w.expected_seq, s) <= HalfSpace

AckEvents(e, evs) ==
    {[by |-> e, n |-> evs[i].n, seq |-> q,
      rcvd |-> RW_has(eng[Peer(e)].receiver.window, q)] :
        <<i, q>> \in {x \in (1..Len(evs)) \X (0..(SeqMod - 1)) : x[2] \in evs[x[1]].retired}}

SWIdle == sw = <<>> /\ swOps = 0
RMIdle == rm = <<>> /\ rmK = 0 /\ rmLog = <<>> /\ rmNow = 0 /\ rmSeq = 0
RAIdle == /\ ra = <<>> /\ raMsg = <<>> /\ raFed = {} /\ raLast = <<>> /\ raOut = <<>>
          /\ raNow = 0
EngIdle == /\ eng = <<>> /\ wire = <<>> /\ now = 0 /\ drops = 0
           /\ sentLog = <<>> /\ gotLog = <<>> /\ wireLog = <<>> /\ acked = {}
ProtoIdle == pr = <<>> /\ prIn = <<>> /\ prLog = <<>>
UnitIdle == sn = <<>> /\ snNow = 0 /\ rw = <<>> /\ rwGot = {} /\ ret = <<>> /\ ProtoIdle

EngInit ==
    /\ eng = [e \in Engines |-> Protocol_new(Config)]
    /\ wire = [e \in Engines |-> <<>>]
    /\ now = 0
    /\ drops = 0
    /\ sentLog = [e \in Engines |-> <<>>]
    /\ gotLog = [e \in Engines |-> <<>>]
    /\ wireLog = <<>>
    /\ acked = {}

Init == EngInit /\ SWIdle /\ RMIdle /\ RAIdle /\ UnitIdle /\ pc = "run"

Others == UNCHANGED <<swVars, rmVars, raVars, unitVars, pc, wireLog>>

\* e made an API call that wrote out to the carrier and left it in state p
Step(e, p, out) ==
    /\ eng' = [eng EXCEPT ![e] = p]
    /\ wire' = [wire EXCEPT ![Peer(e)] = wire[Peer(e)] \o out]

\* e made an API call that also read the carrier, leaving rest unread
StepIn(e, r) ==
    /\ eng' = [eng EXCEPT ![e] = r.p]
    /\ wire' = [wire EXCEPT ![e] = r.rest, ![Peer(e)] = wire[Peer(e)] \o r.out]
    /\ acked' = AckEvents(e, r.acks)

Connect(e) ==
    \E r \in {Protocol_connect(eng[e], now)} :
       /\ Step(e, r.p, r.out)
       /\ acked' = {}
       /\ UNCHANGED <<now, drops, sentLog, gotLog>>
       /\ Others

Accept(e) ==
    \E r \in {Protocol_accept(eng[e], now)} :
       /\ Step(e, r.p, r.out)
       /\ acked' = {}
       /\ UNCHANGED <<now, drops, sentLog, gotLog>>
       /\ Others

Send(e) ==
    \E len \in MsgLens :
        \E data \in {MsgOf(e, Len(sentLog[e]) + 1, len)} :
        \E r \in {Protocol_send(eng[e], data, now)} :
           /\ Len(sentLog["c"]) + Len(sentLog["s"]) < MaxSend
           /\ Step(e, r.p, r.out)
           /\ sentLog' = IF r.err = "Ok" THEN [sentLog EXCEPT ![e] = Append(@, data)]
                         ELSE sentLog
           /\ acked' = {}
           /\ UNCHANGED <<now, drops, gotLog>>
           /\ Others

ProcessIncoming(e) ==
    \E r \in {Protocol_process_incoming(eng[e], wire[e], now)} :
       /\ StepIn(e, r)
       /\ UNCHANGED <<now, drops, sentLog, gotLog>>
       /\ Others

Recv(e) ==
    \E r \in {Protocol_recv(eng[e], wire[e], N, now)} :
       /\ StepIn(e, r)
       /\ gotLog' = IF r.err = "Ok" THEN [gotLog EXCEPT ![e] = Append(@, r.data)]
                    ELSE gotLog
       /\ UNCHANGED <<now, drops, sentLog>>
       /\ Others

\* the attempt counters are u8 in the source; the model stops polling at MaxTx
PollBound(e) ==
    \A i \in 0..(W - 1) :
        eng[e].sender.retransmit.pending[i].active
            => eng[e].sender.retransmit.pending[i].attempts < MaxTx

Poll(e) ==
    \E r \in {Protocol_poll(eng[e], wire[e], now)} :
       /\ PollBound(e)
       /\ StepIn(e, r)
       /\ UNCHANGED <<now, drops, sentLog, gotLog>>
       /\ Others

Close(e) ==
    \E r \in {Protocol_close(eng[e])} :
       /\ Step(e, r.p, r.out)
       /\ acked' = {}
       /\ UNCHANGED <<now, drops, sentLog, gotLog>>
       /\ Others

\* the carrier loses one frame
Drop(e) ==
    \E i \in 1..Len(wire[e]) :
        /\ drops < MaxDrops
        /\ wire' = [wire EXCEPT ![e] = SubSeq(wire[e], 1, i - 1)
                                        \o SubSeq(wire[e], i + 1, Len(wire[e]))]
        /\ drops' = drops + 1
        /\ acked' = {}
        /\ UNCHANGED <<eng, now, sentLog, gotLog>>
        /\ Others

\* the caller's clock moves on
Tick ==
    /\ now < MaxNow * 100
    /\ now' = now + 100
    /\ acked' = {}
    /\ UNCHANGED <<eng, wire, drops, sentLog, gotLog>>
    /\ Others

Next ==
    \/ Connect("c")
    \/ Accept("s")
    \/ \E e \in Engines : Send(e)
    \/ \E e \in Engines : ProcessIncoming(e)
    \/ \E e \in Engines : Recv(e)
    \/ \E e \in Engines : Poll(e)
    \/ \E e \in Engines : Drop(e)
    \/ Tick

Spec == Init /\ [][Next]_vars

NextConn ==
    \/ \E e \in Engines : Connect(e)
    \/ \E e \in Engines : Accept(e)
    \/ \E e \in Engines : ProcessIncoming(e)
    \/ \E e \in Engines : Close(e)
    \/ \E e \in Engines : Drop(e)

SpecConn == Init /\ [][NextConn]_vars

----------------------------------------------------------------------------
(* Claims about the two engines *)

PacketIdOf(k) == k - 1

Delivered(e, k) == \E i \in 1..Len(gotLog[Peer(e)]) : gotLog[Peer(e)][i] = sentLog[e][k]

\* a frame of the k-th message of e is still in e's send window and pending table
Tracked(e, k) ==
    \E i \in 0..(W - 1) :
        LET x == eng[e].sender.window.entries[i]
        IN /\ x.in_use /\ ~x.acked
           /\ x.data.frame_type = "Data" /\ x.data.packet_id = PacketIdOf(k)
           /\ x.sequence \in Sender_pending(eng[e].sender)

OnWire(e, k) ==
    \E i \in 1..Len(wire[Peer(e)]) :
        /\ wire[Peer(e)][i].frame_type = "Data"
        /\ wire[Peer(e)][i].packet_id = PacketIdOf(k)

AtReceiver(e, k) ==
    LET r == eng[Peer(e)].receiver
    IN \/ r.packet_ready /\ r.current_packet_id = PacketIdOf(k)
       \/ \E i \in 0..(E - 1) : /\ r.reassembler.entries[i].in_use
                                /\ r.reassembler.entries[i].packet_id = PacketIdOf(k)

\* C1: every message accepted by send is returned by the peer's recv exactly
\* once or counted in failed_frames.  Stated for finite runs: at every moment an
\* accepted message has been returned, or the sender has counted a failure, or
\* the message is still on its way (a frame of it is pending at the sender, on
\* the carrier, or held by the peer's receiver); and it is never returned twice.
NoSilentLoss ==
    \A e \in Engines : \A k \in 1..Len(sentLog[e]) :
        /\ \/ Delivered(e, k)
           \/ eng[e].sender.retransmit.stats.failed_frames > 0
           \/ Tracked(e, k)
           \/ OnWire(e, k)
           \/ AtReceiver(e, k)
        /\ Cardinality({i \in 1..Len(gotLog[Peer(e)]) :
                            gotLog[Peer(e)][i] = sentLog[e][k]}) <= 1

\* an accepted message that nothing holds any more: not returned, not pending at
\* the sender, not on the carrier, not at the receiver, and no failure counted
LostMessage ==
    \E e \in Engines : \E k \in 1..Len(sentLog[e]) :
        /\ ~Delivered(e, k)
        /\ ~Tracked(e, k)
        /\ ~OnWire(e, k)
        /\ ~AtReceiver(e, k)
        /\ eng[e].sender.retransmit.stats.failed_frames = 0

\* C2: an ACK carrying N retires only frames with sequence strictly less than N
\* (wrap-aware), and every frame it retires has been taken by the peer's receive
\* window.
AckRetiresOnlyReceived ==
    \A ev \in acked :
        /\ WrapSub(ev.n, ev.seq) >= 1
        /\ WrapSub(ev.n, ev.seq) <= HalfSpace
        /\ ev.rcvd

\* an ACK carrying N retired the frame with sequence N itself, which the peer
\* has not received
RetiredNotBelowAck == \E ev \in acked : ev.seq = ev.n /\ ~ev.rcvd

IsPrefix(a, b) == Len(a) <= Len(b) /\ SubSeq(b, 1, Len(a)) = a

\* C5: messages are handed to the application in the order they were sent, none
\* before an earlier one that has not been delivered: what recv has returned is
\* a prefix of what the peer's send accepted.
InOrderDelivery == \A e \in Engines : IsPrefix(gotLog[Peer(e)], sentLog[e])

\* the second message an engine sent was the first one its peer's recv returned
SecondDeliveredFirst ==
    \E e \in Engines :
        /\ Len(sentLog[e]) = 2
        /\ Len(gotLog[Peer(e)]) >= 1
        /\ gotLog[Peer(e)][1] = sentLog[e][2]

ListedEdges ==
    {<<"Idle", "Connecting">>, <<"Connecting", "Connected">>, <<"Connected", "Closing">>,
     <<"Closing", "Closed">>, <<"Idle", "Accepting">>, <<"Accepting", "Connected">>}

\* C6: without reset(), the connection state changes only along
\* IDLE->CONNECTING->CONNECTED->CLOSING->CLOSED and IDLE->ACCEPTING->CONNECTED
\* (or to CLOSED on a RESET), and CLOSED is terminal.
StateMachineEdges ==
    [][\A e \in Engines :
          \/ eng'[e].state = eng[e].state
          \/ <<eng[e].state, eng'[e].state>> \in ListedEdges
          \/ eng[e].state # "Closed" /\ eng'[e].state = "Closed"]_vars

\* both engines called connect and each was moved to ACCEPTING by the other's SYNC
BothAccepting == \A e \in Engines : eng[e].state = "Accepting"

\* C8: after close() in CONNECTED, once the peer has processed the FIN and the
\* initiator has processed the peer's reply over a lossless carrier, the
\* initiator is CLOSED.  sender.state is Closing exactly when close() sent a FIN;
\* with nothing dropped and nothing left on the carrier, the FIN and its reply
\* have both been processed.
CloseCompletes ==
    \A e \in Engines :
        (/\ eng[e].sender.state = "Closing"
         /\ drops = 0
         /\ wire[e] = <<>>
         /\ wire[Peer(e)] = <<>>) => eng[e].state = "Closed"

\* the FIN and its reply have been processed, nothing was dropped, and both
\* engines are left in CLOSING
BothClosing ==
    \E e \in Engines :
        /\ eng[e].sender.state = "Closing"
        /\ eng[e].state = "Closing"
        /\ eng[Peer(e)].state = "Closing"
        /\ drops = 0
        /\ wire[e] = <<>>
        /\ wire[Peer(e)] = <<>>

----------------------------------------------------------------------------
(* A SendWindow driven by any sequence of its operations *)

InitialSeqs == {0, SeqMod - 1}
Seqs == 0..(SeqMod - 1)

SWInit ==
    /\ sw \in {SendWindow_new(ws, s0) : ws \in {WindowSize, W}, s0 \in InitialSeqs}
    /\ swOps = 0

SWDone == /\ swOps' = swOps + 1
          /\ UNCHANGED <<rmVars, raVars, engVars, unitVars, pc>>

SWAddFrame ==
    /\ swOps < MaxSWOps
    /\ sw' = SW_add_frame(sw, Frame_new_data(sw.next_seq, 0, 0, 0, 1, <<1>>), 0).w
    /\ SWDone

SWAckCumulative ==
    \E n \in Seqs :
        /\ swOps < MaxSWOps
        /\ sw' = SW_ack_cumulative(sw, n).w
        /\ SWDone

SWAckSelective ==
    \E n \in Seqs :
        /\ swOps < MaxSWOps
        /\ sw' = SW_ack_selective(sw, n).w
        /\ SWDone

SWMarkRetransmitted ==
    \E n \in Seqs :
        /\ swOps < MaxSWOps
        /\ sw' = SW_mark_retransmitted(sw, n, 100).w
        /\ SWDone

SWReset ==
    \E s0 \in InitialSeqs :
        /\ swOps < MaxSWOps
        /\ sw' = SW_reset(sw, s0)
        /\ SWDone

InitSW == SWInit /\ RMIdle /\ RAIdle /\ EngIdle /\ UnitIdle /\ pc = "run"

NextSW ==
    \/ SWAddFrame
    \/ SWAckCumulative
    \/ SWAckSelective
    \/ SWMarkRetransmitted
    \/ SWReset

SpecSW == InitSW /\ [][NextSW]_vars

\* C3: in_flight equals the number of entries with in_use && !acked, and
\* next_sequence - base_sequence is congruent to in_flight, after any sequence
\* of add_frame, ack_cumulative, ack_selective, mark_retransmitted and reset.
SendWindowAccounting ==
    /\ sw.in_flight =
          Cardinality({i \in 0..(W - 1) : sw.entries[i].in_use /\ ~sw.entries[i].acked})
    /\ WrapSub(sw.next_seq, sw.base_seq) = sw.in_flight % SeqMod

\* a frame was acknowledged selectively and is still counted in flight
SelectiveAckLeak ==
    /\ sw.in_flight > 0
    /\ \E i \in 0..(W - 1) : sw.entries[i].in_use /\ sw.entries[i].acked

----------------------------------------------------------------------------
(* A RetransmitManager driven by any sequence of its operations, the       *)
(* caller's clock moving on between them                                   *)

RTInit ==
    /\ rm \in {RetransmitManager_new(ma, RetransmitTimer_new(100, 1000, 2)) : ma \in {2, 3}}
    /\ rmK = 0
    /\ rmLog = <<>>
    /\ rmNow = 0
    /\ rmSeq = 0

RTOthers == UNCHANGED <<rmSeq, swVars, raVars, engVars, unitVars, pc>>

RTRegister ==
    /\ rm.stats.frames_sent < MaxReg
    /\ rm' = RM_register(rm, rm.stats.frames_sent, rmNow).m
    /\ UNCHANGED <<rmK, rmLog, rmNow>>
    /\ RTOthers

RTAcknowledge ==
    \E seq \in 0..(MaxReg - 1) :
    \E r \in {RM_acknowledge(rm, seq, rmNow)} :
        /\ rm' = r.m
        /\ rmK' = IF r.some THEN 0 ELSE rmK
        /\ UNCHANGED <<rmLog, rmNow>>
        /\ RTOthers

RTAcknowledgeCumulative ==
    \E n \in 0..(MaxReg - 1) :
    \E m \in {RM_acknowledge_cumulative(rm, n, rmNow)} :
        /\ rm' = m
        /\ rmK' = IF m.stats.successful_deliveries > rm.stats.successful_deliveries
                  THEN 0 ELSE rmK
        /\ UNCHANGED <<rmLog, rmNow>>
        /\ RTOthers

RTCheckTimeouts ==
    \E r \in {RM_check_timeouts(rm, rmNow)} :
        /\ rmK < MaxBackoff
        /\ rm' = r.m
        /\ rmK' = IF r.count > 0 THEN rmK + 1 ELSE rmK
        /\ rmLog' = r.reports
        /\ UNCHANGED rmNow
        /\ RTOthers

RTMarkRetransmitted ==
    \E seq \in 0..(MaxReg - 1) :
        /\ \A i \in 0..(W - 1) : rm.pending[i].attempts < MaxTx
        /\ rm' = RM_mark_retransmitted(rm, seq, rmNow).m
        /\ UNCHANGED <<rmK, rmLog, rmNow>>
        /\ RTOthers

RTTick ==
    /\ rmNow < MaxRtNow * 100
    /\ rmNow' = rmNow + 100
    /\ UNCHANGED <<rm, rmK, rmLog>>
    /\ RTOthers

InitRT == RTInit /\ SWIdle /\ RAIdle /\ EngIdle /\ UnitIdle /\ pc = "run"

NextRT ==
    \/ RTRegister
    \/ RTAcknowledge
    \/ RTAcknowledgeCumulative
    \/ RTCheckTimeouts
    \/ RTMarkRetransmitted
    \/ RTTick

SpecRT == InitRT /\ [][NextRT]_vars

\* C9: at every call boundary, after k consecutive timeouts without an
\* acknowledgement current_timeout = min(base * backoff_factor^k, max_timeout),
\* base being the current base timeout (also one set from a measured RTT); k is
\* the number of check_timeouts calls that reported a frame to retransmit since
\* the last acknowledgement, so an acknowledgement (k = 0) leaves min(base, max).
ExponentialBackoff ==
    rm.timer.current_timeout =
        Min(rm.timer.base_timeout * (rm.timer.backoff_factor ^ rmK), rm.timer.max_timeout)

\* an acknowledgement measured a round trip long enough to lift the timeout
\* above max_timeout
TimeoutAboveMax ==
    /\ rm.stats.successful_deliveries > 0
    /\ rm.timer.current_timeout > rm.timer.max_timeout

----------------------------------------------------------------------------
(* reliable/retransmit.rs, tests::test_max_retransmit and the scenario of   *)
(* one frame that is never acknowledged: register at 0, check at 100, mark *)
(* retransmitted, check at 200, check at 300.  The sequence number and the *)
(* timer's max_timeout are the inputs.                                     *)

MaxTimeouts == {1000, 3000}

Pending(m, seq) == \E i \in 0..(W - 1) : m.pending[i].active /\ m.pending[i].sequence = seq

AttemptsOf(m, seq) ==
    LET Match(e) == e.active /\ e.sequence = seq
    IN m.pending[FirstSlot(m, Match)].attempts

MRInit ==
    /\ rm \in {RetransmitManager_new(2, RetransmitTimer_new(100, mt, 2)) : mt \in MaxTimeouts}
    /\ rmK = 0
    /\ rmSeq \in Seqs
    /\ rmLog = <<>>
    /\ rmNow = 0
    /\ pc = "new"

MRRegister ==
    /\ pc = "new"
    /\ rm' = RM_register(rm, rmSeq, 0).m
    /\ pc' = "registered"
    /\ UNCHANGED <<rmK, rmSeq, rmLog, rmNow, swVars, raVars, engVars, unitVars>>

MRCheck ==
    /\ pc \in {"registered", "marked", "checked200"}
    /\ \E r \in {RM_check_timeouts(rm, rmNow + 100)} :
          /\ rm' = r.m
          /\ rmLog' = r.reports
    /\ rmNow' = rmNow + 100
    /\ pc' = CASE pc = "registered" -> "checked100"
               [] pc = "marked" -> "checked200"
               [] pc = "checked200" -> "checked300"
    /\ UNCHANGED <<rmK, rmSeq, swVars, raVars, engVars, unitVars>>

MRMark ==
    /\ pc = "checked100"
    /\ rm' = RM_mark_retransmitted(rm, rmSeq, rmNow).m
    /\ pc' = "marked"
    /\ UNCHANGED <<rmK, rmSeq, rmLog, rmNow, swVars, raVars, engVars, unitVars>>

InitMR == MRInit /\ SWIdle /\ RAIdle /\ EngIdle /\ UnitIdle

NextMR ==
    \/ MRRegister
    \/ MRCheck
    \/ MRMark

SpecMR == InitMR /\ [][NextMR]_vars

\* C10: with max_attempts = 2, base timeout 100, max_timeout at least 200 and
\* backoff factor 2, for a frame registered at 0 and never acknowledged:
\* check_timeouts at 100 reports it for retransmission (not exceeded), and
\* marking it retransmitted gives attempts = 2; check_timeouts at 200 reports
\* nothing, because the timeout has backed off to 200 and 100 have passed since
\* the retransmission; check_timeouts at 300 reports it as exceeded, drops the
\* entry, and failed_frames becomes 1.
MaxRetransmitScenario ==
    /\ pc = "checked100" =>
          /\ rmLog = <<[seq |-> rmSeq, exceeded |-> FALSE]>>
          /\ Pending(rm, rmSeq)
    /\ pc = "marked" => Pending(rm, rmSeq) /\ AttemptsOf(rm, rmSeq) = 2
    /\ pc = "checked200" =>
          /\ rmLog = <<>>
          /\ Pending(rm, rmSeq)
          /\ rm.stats.failed_frames = 0
    /\ pc = "checked300" =>
          /\ rmLog = <<[seq |-> rmSeq, exceeded |-> TRUE]>>
          /\ ~Pending(rm, rmSeq)
          /\ rm.count = 0
          /\ rm.stats.failed_frames = 1

\* the frame was given up at 300
GivenUpAt300 == pc = "checked300" /\ rmNow = 300 /\ rm.stats.failed_frames = 1

\* C10 as written: check_timeouts at 200 reports the frame as exceeded, drops
\* the entry, and failed_frames becomes 1.
MaxRetransmitAt200 ==
    pc = "checked200" =>
        /\ rmLog = <<[seq |-> rmSeq, exceeded |-> TRUE]>>
        /\ ~Pending(rm, rmSeq)
        /\ rm.stats.failed_frames = 1

----------------------------------------------------------------------------
(* A Reassembler fed the fragments of one message in any order, with       *)
(* repeats, and then asked for the message                                 *)

Range(q) == {q[i] : i \in 1..Len(q)}

RAInit ==
    /\ raMsg \in {[data |-> [j \in 1..len |-> 10 + j],
                   max_payload |-> mp,
                   packet_id |-> id,
                   count |-> Packet_fragment_count([j \in 1..len |-> 10 + j], mp)] :
                     len \in 2..N, mp \in 1..(N - 1), id \in {0, 1}}
    /\ raMsg.count >= 2
    /\ ra = Reassembler_new(raMsg.max_payload, 300)
    /\ raFed = <<>>
    /\ raLast = <<>>
    /\ raOut = <<>>
    /\ raNow = 0

RAOthers == UNCHANGED <<swVars, rmVars, engVars, unitVars, pc>>

RAProcessFrame ==
    \E i \in 0..(raMsg.count - 1) :
    \E r \in {RA_process_frame(ra,
                  Frame_new_data(Len(raFed), 0, raMsg.packet_id, i, raMsg.count,
                                 Packet_fragment_data(raMsg.data, i, raMsg.max_payload)),
                  0)} :
        /\ raOut = <<>>
        /\ Len(raFed) < MaxFeed
        /\ ra' = r.r
        /\ raFed' = Append(raFed, i)
        /\ raLast' = [index |-> i, fresh |-> i \notin Range(raFed), before |-> ra,
                      after |-> r.r, err |-> r.err, some |-> r.some]
        /\ UNCHANGED <<raMsg, raOut, raNow>>
        /\ RAOthers

RATakeCompleted ==
    \E r \in {RA_take_completed(ra, raMsg.packet_id, N)} :
        /\ raOut = <<>>
        /\ Range(raFed) = 0..(raMsg.count - 1)
        /\ ra' = r.r
        /\ raOut' = [err |-> r.err, data |-> r.data]
        /\ UNCHANGED <<raMsg, raFed, raLast, raNow>>
        /\ RAOthers

InitRA == RAInit /\ SWIdle /\ RMIdle /\ EngIdle /\ UnitIdle /\ pc = "run"

NextRA ==
    \/ RAProcessFrame
    \/ RATakeCompleted

SpecRA == InitRA /\ [][NextRA]_vars

\* C4: whatever the order in which the fragments of a message of 2 or more
\* fragments are fed to process_frame, and whichever are repeated, process_frame
\* signals completion exactly when the last missing fragment arrives, a repeated
\* fragment changes nothing and signals nothing, and take_completed then returns
\* the message byte for byte.
ReassemblyOrderIndependent ==
    /\ raLast # <<>> =>
          /\ raLast.err = "Ok"
          /\ raLast.some = (raLast.fresh /\ Range(raFed) = 0..(raMsg.count - 1))
          /\ ~raLast.fresh => raLast.after = raLast.before
    /\ raOut # <<>> =>
          /\ raOut.err = "Ok"
          /\ raOut.data = raMsg.data

\* the last fragment was fed first, some fragment was fed twice, and the message
\* of three or more fragments was taken
TakenOutOfOrder ==
    /\ raOut # <<>>
    /\ raOut.data = raMsg.data
    /\ raMsg.count >= 3
    /\ raFed[1] = raMsg.count - 1
    /\ Len(raFed) > raMsg.count

----------------------------------------------------------------------------
(* examples/echo.rs, main: the handshake, then messages sent by the client *)
(* and echoed by the server over a lossless carrier.  The messages are the *)
(* inputs.  A failed expect ends the run in pc = "panic".                  *)

EchoMsgs == UNION {[1..len -> {1, 2}] : len \in 1..MaxPayload}

\* the caller's blocks of main: each is one step
EchoWrite(e, p, rest, out) ==
    /\ eng' = [eng EXCEPT ![e] = p]
    /\ wire' = [wire EXCEPT ![e] = rest, ![Peer(e)] = wire[Peer(e)] \o out]
    /\ wireLog' = wireLog \o out
    /\ acked' = {}
    /\ UNCHANGED <<drops, swVars, rmVars, raVars, unitVars>>

EchoConnect ==
    \E r \in {Protocol_connect(eng["c"], now)} :
        /\ pc = "start"
        /\ EchoWrite("c", r.p, wire["c"], r.out)
        /\ pc' = IF r.err = "Ok" THEN "syn_sent" ELSE "panic"
        /\ now' = now + 10
        /\ UNCHANGED <<sentLog, gotLog>>

EchoAccept ==
    \E i \in {Protocol_process_incoming(eng["s"], wire["s"], now)} :
    \E a \in {Protocol_accept(i.p, now)} :
        /\ pc = "syn_sent"
        /\ IF i.err # "Ok"
           THEN EchoWrite("s", i.p, i.rest, i.out) /\ pc' = "panic"
           ELSE /\ EchoWrite("s", a.p, i.rest, i.out \o a.out)
                /\ pc' = IF a.err = "Ok" THEN "accepted" ELSE "panic"
        /\ now' = now + 10
        /\ UNCHANGED <<sentLog, gotLog>>

EchoEstablish ==
    \E i \in {Protocol_process_incoming(eng["c"], wire["c"], now)} :
        /\ pc = "accepted"
        /\ EchoWrite("c", i.p, i.rest, i.out)
        /\ pc' = IF i.err = "Ok" THEN "established" ELSE "panic"
        /\ UNCHANGED <<now, sentLog, gotLog>>

EchoSend ==
    \E msg \in EchoMsgs :
    \E r \in {Protocol_send(eng["c"], msg, now + 100)} :
        /\ pc \in {"established", "echoed"}
        /\ Len(sentLog["c"]) < MaxEcho
        /\ EchoWrite("c", r.p, wire["c"], r.out)
        /\ pc' = IF r.err = "Ok" THEN "sent" ELSE "panic"
        /\ sentLog' = [sentLog EXCEPT !["c"] = Append(@, msg)]
        /\ now' = now + 100
        /\ UNCHANGED gotLog

\* process_incoming; if has_data then recv, and send back what recv returned
EchoServe ==
    \E i \in {Protocol_process_incoming(eng["s"], wire["s"], now)} :
    \E r \in {Protocol_recv(i.p, i.rest, N, now)} :
    \E t \in {Protocol_send(r.p, r.data, now)} :
        /\ pc = "sent"
        /\ IF i.err # "Ok"
           THEN /\ EchoWrite("s", i.p, i.rest, i.out)
                /\ pc' = "panic"
                /\ UNCHANGED <<sentLog, gotLog>>
           ELSE IF ~i.p.receiver.packet_ready
           THEN /\ EchoWrite("s", i.p, i.rest, i.out)
                /\ pc' = "served"
                /\ UNCHANGED <<sentLog, gotLog>>
           ELSE IF r.err # "Ok"
           THEN /\ EchoWrite("s", r.p, r.rest, i.out \o r.out)
                /\ pc' = "served"
                /\ UNCHANGED <<sentLog, gotLog>>
           ELSE /\ EchoWrite("s", t.p, r.rest, i.out \o r.out \o t.out)
                /\ pc' = IF t.err = "Ok" THEN "served" ELSE "panic"
                /\ gotLog' = [gotLog EXCEPT !["s"] = Append(@, r.data)]
                /\ sentLog' = [sentLog EXCEPT !["s"] = Append(@, r.data)]
        /\ now' = now + 50

\* process_incoming; if has_data then recv
EchoReturn ==
    \E i \in {Protocol_process_incoming(eng["c"], wire["c"], now)} :
    \E r \in {Protocol_recv(i.p, i.rest, N, now)} :
        /\ pc = "served"
        /\ IF i.err # "Ok"
           THEN /\ EchoWrite("c", i.p, i.rest, i.out)
                /\ pc' = "panic"
                /\ UNCHANGED gotLog
           ELSE IF ~i.p.receiver.packet_ready
           THEN /\ EchoWrite("c", i.p, i.rest, i.out)
                /\ pc' = "echoed"
                /\ UNCHANGED gotLog
           ELSE /\ EchoWrite("c", r.p, r.rest, i.out \o r.out)
                /\ pc' = "echoed"
                /\ gotLog' = IF r.err = "Ok" THEN [gotLog EXCEPT !["c"] = Append(@, r.data)]
                             ELSE gotLog
        /\ UNCHANGED <<now, sentLog>>

InitEcho == EngInit /\ SWIdle /\ RMIdle /\ RAIdle /\ UnitIdle /\ pc = "start"

NextEcho ==
    \/ EchoConnect
    \/ EchoAccept
    \/ EchoEstablish
    \/ EchoSend
    \/ EchoServe
    \/ EchoReturn

SpecEcho == InitEcho /\ [][NextEcho]_vars

Retransmissions(e) == eng[e].sender.retransmit.stats.retransmissions

\* C7: after client connect, server process_incoming and accept, and client
\* process_incoming over a lossless carrier, both engines are CONNECTED and the
\* carrier has carried SYNC(seq=0), SYNC_ACK(seq=0, ack=1), ACK(ack=1) in that
\* order; a single-fragment message the client then sends is returned by the
\* server's recv, its echo is returned by the client's recv, and neither side
\* records a retransmission.
HandshakeAndEcho ==
    /\ pc # "panic"
    /\ pc \in {"established", "sent", "served", "echoed"} =>
          /\ eng["c"].state = "Connected"
          /\ eng["s"].state = "Connected"
          /\ Len(wireLog) >= 3
          /\ SubSeq(wireLog, 1, 3) =
                <<Frame_new_sync(0), Frame_new_sync_ack(0, 1), Frame_new_ack(1)>>
    /\ pc = "served" =>
          /\ gotLog["s"] = sentLog["c"]
          /\ sentLog["s"] = sentLog["c"]
    /\ pc = "echoed" => gotLog["c"] = sentLog["c"]
    /\ Retransmissions("c") = 0
    /\ Retransmissions("s") = 0

\* the client has got back the echo of its first message
EchoReturned ==
    /\ pc = "echoed"
    /\ Len(sentLog["c"]) = 1
    /\ gotLog["c"] = sentLog["c"]
    /\ gotLog["s"] = sentLog["c"]

----------------------------------------------------------------------------
(* A Sender driven by its operations: packets of one or several fragments  *)
(* are sent, retransmissions are checked as the caller's clock moves on,   *)
(* and cumulative ACKs come in.                                            *)

MaxSnFrames == 4
MaxSnNow == 2

SNInit ==
    /\ sn = Sender_new(Config)
    /\ snNow = 0
    /\ ret = [op |-> "new", err |-> "Ok", out |-> <<>>, frames |-> 0,
              exceeded |-> {}, len |-> 0]

SNOthers == UNCHANGED <<swVars, rmVars, raVars, engVars, rw, rwGot, protoVars, pc>>

SNSendPacket ==
    \E len \in MsgLens :
        \E r \in {Sender_send_packet(sn, MsgOf("c", sn.next_packet_id, len), snNow)} :
           /\ sn.retransmit.stats.frames_sent < MaxSnFrames
           /\ sn' = r.s
           /\ ret' = [op |-> "send", err |-> r.err, out |-> r.out, frames |-> r.frames,
                      exceeded |-> {}, len |-> len]
           /\ UNCHANGED snNow
           /\ SNOthers

\* the attempt counters are u8 in the source; the model stops checking at MaxTx
SNCheckBound ==
    \A i \in 0..(W - 1) :
        sn.retransmit.pending[i].active => sn.retransmit.pending[i].attempts < MaxTx

SNCheckRetransmit ==
    \E r \in {Sender_check_retransmit(sn, snNow)} :
    \E c \in {RM_check_timeouts(sn.retransmit, snNow)} :
       /\ SNCheckBound
       /\ sn' = r.s
       /\ ret' = [op |-> "check", err |-> r.err, out |-> r.out, frames |-> r.count,
                  exceeded |-> {c.reports[i].seq :
                                   i \in {j \in 1..Len(c.reports) : c.reports[j].exceeded}},
                  len |-> 0]
       /\ UNCHANGED snNow
       /\ SNOthers

SNProcessAck ==
    \E ack \in {sn.window.base_seq, WrapAdd(sn.window.base_seq, 1), sn.window.next_seq} :
       /\ sn.window.in_flight > 0
       /\ sn' = Sender_process_ack(sn, ack, snNow)
       /\ ret' = [op |-> "ack", err |-> "Ok", out |-> <<>>, frames |-> 0,
                  exceeded |-> {}, len |-> 0]
       /\ UNCHANGED snNow
       /\ SNOthers

SNTick ==
    /\ snNow < MaxSnNow * 100
    /\ snNow' = snNow + 100
    /\ ret' = [op |-> "tick", err |-> "Ok", out |-> <<>>, frames |-> 0,
               exceeded |-> {}, len |-> 0]
    /\ UNCHANGED sn
    /\ SNOthers

InitSN == SNInit /\ rw = <<>> /\ rwGot = {} /\ ProtoIdle /\ SWIdle /\ RMIdle /\ RAIdle /\ EngIdle
          /\ pc = "run"

NextSN == SNSendPacket \/ SNCheckRetransmit \/ SNProcessAck \/ SNTick

SpecSN == InitSN /\ [][NextSN]_vars

\* C11: a frame that check_retransmit has just counted as failed (exceeded its
\* retransmit attempts) no longer holds a slot of the send window, and a
\* send_packet call is never refused with window-full while no frame of the
\* window is still tracked for retransmission.
FailedFrameReleased ==
    /\ ret.op = "check" => ret.exceeded \cap Sender_in_window(sn) = {}
    /\ (ret.op = "send" /\ ret.err = "WindowFull") =>
          Sender_in_window(sn) \cap Sender_pending(sn) # {}

\* the window is full of frames that were given up, and a send was refused
WindowFullOfFailed ==
    /\ ret.op = "send"
    /\ ret.err = "WindowFull"
    /\ sn.retransmit.count = 0
    /\ sn.retransmit.stats.failed_frames = WindowSize
    /\ sn.window.in_flight = sn.window.window_size

----------------------------------------------------------------------------
(* RetransmitManager::acknowledge_cumulative over frames registered at any *)
(* sequence numbers of the wrap-around space                               *)

MaxAcReg == 2

ACInit ==
    /\ rm = RetransmitManager_new(3, RetransmitTimer_new(100, 1000, 2))
    /\ rmK = 0
    /\ rmLog = <<>>
    /\ rmNow = 0
    /\ rmSeq = 0
    /\ ret = [op |-> "new", pre |-> <<>>]

ACOthers == UNCHANGED <<rmK, rmLog, swVars, raVars, engVars, sn, snNow, rw, rwGot,
                        protoVars, pc>>

\* sequence numbers at the start, the middle and the end of the space
AcSeqs == {0, 1, HalfSpace + 1, SeqMod - 1}

ACRegister ==
    \E seq \in AcSeqs :
        /\ rm.stats.frames_sent < MaxAcReg
        /\ rm' = RM_register(rm, seq, rmNow).m
        /\ ret' = [op |-> "register", pre |-> <<>>]
        /\ UNCHANGED <<rmNow, rmSeq>>
        /\ ACOthers

ACMarkRetransmitted ==
    \E seq \in AcSeqs :
        /\ Pending(rm, seq)
        /\ AttemptsOf(rm, seq) < 2
        /\ rm' = RM_mark_retransmitted(rm, seq, rmNow).m
        /\ ret' = [op |-> "mark", pre |-> <<>>]
        /\ UNCHANGED <<rmNow, rmSeq>>
        /\ ACOthers

ACAcknowledgeCumulative ==
    \E n \in Seqs :
        /\ rm.count > 0
        /\ rm' = RM_acknowledge_cumulative(rm, n, rmNow)
        /\ rmSeq' = n
        /\ ret' = [op |-> "ack", pre |-> rm.pending]
        /\ UNCHANGED rmNow
        /\ ACOthers

ACTick ==
    /\ rmNow = 0
    /\ rmNow' = 100
    /\ ret' = [op |-> "tick", pre |-> <<>>]
    /\ UNCHANGED <<rm, rmSeq>>
    /\ ACOthers

InitAC == ACInit /\ sn = <<>> /\ snNow = 0 /\ rw = <<>> /\ rwGot = {} /\ ProtoIdle
          /\ SWIdle /\ RAIdle /\ EngIdle /\ pc = "run"

NextAC == ACRegister \/ ACMarkRetransmitted \/ ACAcknowledgeCumulative \/ ACTick

SpecAC == InitAC /\ [][NextAC]_vars

\* the difference a - b of two sequence numbers read as a signed number
SignedDiff(a, b) ==
    IF WrapSub(a, b) >= SeqMod \div 2 THEN WrapSub(a, b) - SeqMod ELSE WrapSub(a, b)

\* C12: acknowledge_cumulative(N, t) retires exactly the pending frames whose
\* sequence s has signed_diff(N, s) >= 0 in wrap-around arithmetic, and leaves
\* every other pending frame active with its attempts and last-sent time unchanged.
CumulativeAckRetiresExactly ==
    ret.op = "ack" =>
        \A i \in 0..(W - 1) :
            ret.pre[i].active =>
                IF SignedDiff(rmSeq, ret.pre[i].sequence) >= 0
                THEN ~rm.pending[i].active
                ELSE rm.pending[i] = ret.pre[i]

\* a pending frame exactly half the sequence space behind the ACK stayed pending
HalfSpaceBehindKept ==
    /\ ret.op = "ack"
    /\ \E i \in 0..(W - 1) :
          /\ ret.pre[i].active
          /\ WrapSub(rmSeq, ret.pre[i].sequence) = HalfSpace
          /\ rm.pending[i].active

----------------------------------------------------------------------------
(* A ReceiveWindow driven by receive and advance, the sequence numbers     *)
(* taken around the window and half the sequence space away from it        *)

MaxRwSpan == 6

RWInit ==
    /\ rw \in {ReceiveWindow_new(ws, s0) : ws \in {WindowSize, W}, s0 \in InitialSeqs}
    /\ rwGot = {}
    /\ ret = [op |-> "new", seq |-> 0, err |-> "Ok", new |-> FALSE, val |-> 0,
              pre |-> <<>>, got |-> {}]
    /\ pc = "s0"

RWOthers == UNCHANGED <<swVars, rmVars, raVars, engVars, sn, snNow, protoVars>>

\* offsets from expected_seq of the sequence numbers handed to receive
RwOffsets == ((0 - W - 1)..(W + 1)) \cup {HalfSpace, HalfSpace + 1}

\* position in the scenario receive(0), receive(2), receive(2), receive(1),
\* advance() on a new window at sequence 0 of size 3 or more
Scenario(op, seq) ==
    CASE pc = "s0" /\ op = "receive" /\ seq = 0
            /\ rw = ReceiveWindow_new(W, 0) -> "s1"
      [] pc = "s1" /\ op = "receive" /\ seq = 2 -> "s2"
      [] pc = "s2" /\ op = "receive" /\ seq = 2 -> "s3"
      [] pc = "s3" /\ op = "receive" /\ seq = 1 -> "s4"
      [] pc = "s4" /\ op = "advance" -> "s5"
      [] OTHER -> "off"

RWReceive ==
    \E off \in RwOffsets :
    \E seq \in {(rw.expected_seq + off + SeqMod) % SeqMod} :
    \E r \in {RW_receive(rw, seq)} :
        /\ WrapSub(rw.expected_seq, SeqMod - 1) <= MaxRwSpan
        /\ rw' = r.w
        /\ rwGot' = IF r.err = "Ok" /\ r.new THEN rwGot \cup {seq} ELSE rwGot
        /\ ret' = [op |-> "receive", seq |-> seq, err |-> r.err, new |-> r.new,
                   val |-> 0, pre |-> rw, got |-> rwGot]
        /\ pc' = Scenario("receive", seq)
        /\ RWOthers

RWAdvance ==
    \E w \in {RW_advance(rw)} :
        /\ WrapSub(rw.expected_seq, SeqMod - 1) <= MaxRwSpan
        /\ rw' = w
        /\ rwGot' = {s \in rwGot : WrapSub(s, rw.expected_seq) >=
                                       WrapSub(w.expected_seq, rw.expected_seq)}
        /\ ret' = [op |-> "advance", seq |-> 0, err |-> "Ok", new |-> FALSE,
                   val |-> w.expected_seq, pre |-> rw, got |-> rwGot]
        /\ pc' = Scenario("advance", 0)
        /\ RWOthers

InitRW == RWInit /\ sn = <<>> /\ snNow = 0 /\ ProtoIdle /\ SWIdle /\ RMIdle /\ RAIdle /\ EngIdle

NextRW == RWReceive \/ RWAdvance

SpecRW == InitRW /\ [][NextRW]_vars

\* what receive(seq) is to report on window p: new, duplicate, old duplicate
\* (seq before expected_seq, at most span sequences back) or out of range
Classify(p, seq, span) ==
    IF WrapSub(seq, p.expected_seq) < p.window_size
    THEN IF p.received[seq % W] THEN "duplicate" ELSE "new"
    ELSE IF WrapSub(p.expected_seq, seq) >= 1 /\ WrapSub(p.expected_seq, seq) <= span
    THEN "old"
    ELSE "range"

\* receive(seq), having returned, did what the class asks for
ReceiveAsClassified(class) ==
    CASE class = "new" ->
            /\ ret.err = "Ok" /\ ret.new
            /\ rw.received = [ret.pre.received EXCEPT ![ret.seq % W] = TRUE]
            /\ rw.expected_seq = ret.pre.expected_seq
            /\ rw.window_size = ret.pre.window_size
            /\ rw.highest_received =
                  IF SignedDiff(ret.seq, ret.pre.highest_received) > 0
                  THEN ret.seq ELSE ret.pre.highest_received
      [] class \in {"duplicate", "old"} ->
            ret.err = "Ok" /\ ~ret.new /\ rw = ret.pre
      [] OTHER ->
            ret.err = "SequenceOutOfRange" /\ rw = ret.pre

\* the scenario: 0 and 2 first, 2 is new, a repeated 2 is a duplicate, 1 is new,
\* and advance() returns 3
ReceiveScenario ==
    /\ pc \in {"s1", "s2", "s4"} => ret.err = "Ok" /\ ret.new
    /\ pc = "s3" => ret.err = "Ok" /\ ~ret.new
    /\ pc = "s5" => ret.val = 3

\* C13: receive(seq) sets the bit and reports new (raising highest_received if
\* seq is ahead) when (seq - expected_seq) mod 2^32 < window_size and the bit is
\* clear; reports duplicate when the bit is set; reports an old duplicate
\* without error when seq lies before expected_seq within one window span, that
\* is from expected_seq - window_size up to expected_seq - 1; fails with
\* sequence-out-of-range otherwise; and leaves the window unchanged in every
\* case but the first.  So with 0 and 2 received first, 2 is new, a repeated 2
\* is a duplicate, 1 is then new, and advance() returns 3.
ReceiveClassification ==
    /\ ret.op = "receive" =>
          ReceiveAsClassified(Classify(ret.pre, ret.seq, ret.pre.window_size))
    /\ ReceiveScenario

\* a frame the window had received and passed, exactly one window behind
\* expected_seq, was refused as out of range when it came again
WindowBehindRefused ==
    /\ ret.op = "receive"
    /\ ret.err = "SequenceOutOfRange"
    /\ ret.pre.expected_seq < HalfSpace
    /\ ret.seq < ret.pre.expected_seq
    /\ ret.pre.expected_seq - ret.seq = ret.pre.window_size

\* how many sequences from expected_seq on the window p has received in a row
RECURSIVE Run(_, _, _)
Run(p, got, k) ==
    IF k < W /\ WrapAdd(p.expected_seq, k) \in got THEN Run(p, got, k + 1) ELSE k

\* C14: advance() returns the smallest sequence at or after the expected_seq
\* held before the call that the window has not received (whose bit is not
\* set), makes it the new expected_seq, and clears the bits of the sequences it
\* passed, the other bits staying as they were; it returns also when every bit
\* of the window is set.
AdvanceToFirstGap ==
    ret.op = "advance" =>
        /\ \A s \in ret.got : ret.pre.received[s % W]
        /\ ret.val = WrapAdd(ret.pre.expected_seq, Run(ret.pre, ret.got, 0))
        /\ rw.expected_seq = ret.val
        /\ ret.val \notin ret.got
        /\ rw.received =
              [i \in 0..(W - 1) |->
                  ret.pre.received[i] /\ \E s \in rwGot : s % W = i]
        /\ rwGot = {s \in ret.got : WrapSub(s, ret.pre.expected_seq) >=
                                        Run(ret.pre, ret.got, 0)}
        /\ rw.highest_received = ret.pre.highest_received
        /\ rw.window_size = ret.pre.window_size

\* advance() passed a window whose every bit was set
AdvancedFullWindow ==
    /\ ret.op = "advance"
    /\ \A i \in 0..(W - 1) : ret.pre.received[i]
    /\ ret.val = WrapAdd(ret.pre.expected_seq, W)
    /\ \A i \in 0..(W - 1) : ~rw.received[i]

----------------------------------------------------------------------------
(* A Reassembler fed the fragments of several two-fragment packets as the  *)
(* caller's clock moves on, with completed packets taken and timed-out     *)
(* entries cleaned up                                                      *)

MaxEvIds == 2
MaxEvNow == 1
EvTimeout == 100

EVInit ==
    /\ ra = Reassembler_new(1, EvTimeout)
    /\ raMsg = <<>>
    /\ raFed = {}
    /\ raLast = <<>>
    /\ raOut = <<>>
    /\ raNow = 0
    /\ ret = [op |-> "new", n |-> 0, id |-> 0, err |-> "Ok", pre |-> <<>>]

EVOthers == UNCHANGED <<raMsg, raLast, raOut, swVars, rmVars, engVars,
                        sn, snNow, rw, rwGot, protoVars, pc>>

\* raFed holds the packets that have lost an entry to a cleanup
EVProcessFrame ==
    \E id \in 0..(MaxEvIds - 1), idx \in 0..1 :
    \E r \in {RA_process_frame(ra, Frame_new_data(id, 0, id, idx, 2, <<idx + 1>>),
                               raNow)} :
        /\ ra' = r.r
        /\ ret' = [op |-> "process", n |-> idx, id |-> id, err |-> r.err, pre |-> ra]
        /\ UNCHANGED <<raFed, raNow>>
        /\ EVOthers

EVTakeCompleted ==
    \E id \in 0..(MaxEvIds - 1) :
    \E t \in {RA_take_completed(ra, id, N)} :
        /\ t.err = "Ok"
        /\ ra' = t.r
        /\ ret' = [op |-> "take", n |-> Len(t.data), id |-> id, err |-> t.err, pre |-> ra]
        /\ UNCHANGED <<raFed, raNow>>
        /\ EVOthers

EVCleanup ==
    \E c \in {RA_cleanup_timeout(ra, raNow)} :
        /\ ra' = c.r
        /\ raFed' = raFed \cup {ra.entries[i].packet_id :
                                   i \in {j \in 0..(E - 1) :
                                             ra.entries[j].in_use /\ ~c.r.entries[j].in_use}}
        /\ ret' = [op |-> "cleanup", n |-> c.cleaned, id |-> 0, err |-> "Ok", pre |-> ra]
        /\ UNCHANGED raNow
        /\ EVOthers

EVTick ==
    /\ raNow < MaxEvNow * EvTimeout
    /\ raNow' = raNow + EvTimeout
    /\ ret' = [op |-> "tick", n |-> 0, id |-> 0, err |-> "Ok", pre |-> <<>>]
    /\ UNCHANGED <<ra, raFed>>
    /\ EVOthers

InitEV == EVInit /\ sn = <<>> /\ snNow = 0 /\ rw = <<>> /\ rwGot = {} /\ ProtoIdle
          /\ SWIdle /\ RMIdle /\ EngIdle /\ pc = "run"

NextEV == EVProcessFrame \/ EVTakeCompleted \/ EVCleanup \/ EVTick

SpecEV == InitEV /\ [][NextEV]_vars

InUse(r) == {i \in 0..(E - 1) : r.entries[i].in_use}

Evicted == InUse(ret.pre) \ InUse(ra)

FramesOf(s, data) ==
    [i \in 1..Packet_fragment_count(data, s.max_payload) |->
        [frame_type |-> "Data",
         sequence |-> WrapAdd(s.window.next_seq, i - 1),
         packet_id |-> s.next_packet_id,
         fragment_index |-> i - 1,
         total_fragments |-> Packet_fragment_count(data, s.max_payload),
         payload |-> SubSeq(data, (i - 1) * s.max_payload + 1,
                            Min(i * s.max_payload, Len(data)))]]

\* frame f of the carrier is the frame g that was asked for
SameFrame(f, g) ==
    /\ f.frame_type = g.frame_type
    /\ f.sequence = g.sequence
    /\ f.packet_id = g.packet_id
    /\ f.fragment_index = g.fragment_index
    /\ f.total_fragments = g.total_fragments
    /\ f.payload = g.payload

\* send_packet of data took sender s to t, writing out and returning err
SendPacketOutcome(s, t, data, err, out) ==
    LET k == Packet_fragment_count(data, s.max_payload)
        want == FramesOf(s, data)
    IN IF SW_available(s.window) < k
       THEN /\ err = "WindowFull"
            /\ out = <<>>
            /\ t = s
       ELSE /\ err = "Ok"
            /\ Len(out) = k
            /\ \A i \in 1..k :
                  /\ SameFrame(out[i], want[i])
                  /\ t.window.entries[want[i].sequence % W].in_use
                  /\ ~t.window.entries[want[i].sequence % W].acked
                  /\ t.window.entries[want[i].sequence % W].sequence = want[i].sequence
                  /\ t.window.entries[want[i].sequence % W].data = out[i]
                  /\ t.window.entries[want[i].sequence % W].transmit_count = 1
                  /\ want[i].sequence \in Sender_pending(t)
            /\ t.window.next_seq = WrapAdd(s.window.next_seq, k)
            /\ t.window.in_flight = s.window.in_flight + k
            /\ t.retransmit.count = s.retransmit.count + k
            /\ t.next_packet_id = (s.next_packet_id + 1) % 65536

\* C16: send_packet reserves its window slots up front.  For a message of k
\* fragments with fewer than k slots available it fails with window-full,
\* writes nothing and leaves the sender (next_sequence, in_flight, retransmit
\* table, next_packet_id) unchanged; otherwise it succeeds, emitting exactly k
\* frames in order with consecutive sequence numbers, the same packet id and
\* fragment indices 0..k-1, each recorded in the window and in the retransmit
\* manager, and advances next_packet_id by one modulo 2^16.
SendPacketReserves ==
    [][ret'.op = "send" =>
          SendPacketOutcome(sn, sn', MsgOf("c", sn.next_packet_id, ret'.len),
                            ret'.err, ret'.out)]_vars

\* a message of two fragments was refused with one slot of the window left
TwoFragmentsRefused ==
    /\ ret.op = "send"
    /\ ret.err = "WindowFull"
    /\ ret.len > sn.max_payload
    /\ SW_available(sn.window) = 1

\* a message of two fragments went out as two frames
TwoFragmentsSent ==
    /\ ret.op = "send"
    /\ ret.err = "Ok"
    /\ Len(ret.out) = 2
    /\ ret.out[2].fragment_index = 1

-----------------------------------------------------------------------------
(* buffer/window.rs: add_frame on windows configured below, at and above the
   capacity W *)

\* operations after the W that fill a window
MaxAfOps == 2

\* configured sizes: Config::high_throughput asks for more than the capacity
AfSizes == {WindowSize, W, W + 1}

\* payload lengths of the frames offered: one byte, and one byte more than a
\* slot of F bytes holds
AfLens == {1, F - FRAME_HEADER_SIZE + 1}

AFInit ==
    \E ws \in AfSizes, s0 \in InitialSeqs :
        /\ sw = SendWindow_new(ws, s0)
        /\ swOps = 0
        /\ ret = [op |-> "new", configured |-> ws, pre |-> sw, err |-> "Ok", seq |-> 0,
                  size |-> 0, last |-> <<>>]

AFOthers == UNCHANGED <<rmVars, raVars, engVars, sn, snNow, rw, rwGot, protoVars, pc>>

AFAddFrame ==
    \E len \in AfLens :
    \E frame \in {Frame_new_data(sw.next_seq, 0, 0, 0, 1, [j \in 1..len |-> 1])} :
    \E r \in {SW_add_frame(sw, frame, swOps)} :
        /\ swOps < W + MaxAfOps
        /\ sw' = r.w
        /\ swOps' = swOps + 1
        /\ ret' = [op |-> "add", configured |-> ret.configured, pre |-> sw, err |-> r.err,
                   seq |-> r.seq, size |-> WireSize(frame),
                   last |-> IF ret.op = "add" /\ ret.err = "Ok" THEN <<ret.seq>>
                            ELSE ret.last]
        /\ AFOthers

AFAckCumulative ==
    \E n \in {sw.base_seq, WrapSub(sw.next_seq, 1)} :
        /\ swOps < W + MaxAfOps
        /\ sw.in_flight > 0
        /\ sw' = SW_ack_cumulative(sw, n).w
        /\ swOps' = swOps + 1
        /\ ret' = [op |-> "ack", configured |-> ret.configured, pre |-> sw, err |-> "Ok",
                   seq |-> n, size |-> 0,
                   last |-> IF ret.op = "add" /\ ret.err = "Ok" THEN <<ret.seq>>
                            ELSE ret.last]
        /\ AFOthers

InitAF ==
    /\ AFInit
    /\ RMIdle /\ RAIdle /\ EngIdle
    /\ sn = <<>> /\ snNow = 0 /\ rw = <<>> /\ rwGot = {} /\ ProtoIdle
    /\ pc = "run"

NextAF ==
    \/ AFAddFrame
    \/ AFAckCumulative

SpecAF == InitAF /\ [][NextAF]_vars

\* what a successful add_frame returns and leaves: the previous next_sequence,
\* the frame stored with transmit_count 1, and the sequence following the one
\* the last successful call returned
AddFrameStored ==
    /\ ret.err = "Ok"
    /\ ret.seq = ret.pre.next_seq
    /\ sw.next_seq = WrapAdd(ret.pre.next_seq, 1)
    /\ sw.in_flight = ret.pre.in_flight + 1
    /\ sw.entries[ret.seq % W].in_use
    /\ sw.entries[ret.seq % W].sequence = ret.seq
    /\ sw.entries[ret.seq % W].transmit_count = 1
    /\ ret.last # <<>> => ret.seq = WrapAdd(ret.last[1], 1)

\* C17 as stated: add_frame fails with window-full exactly when in_flight
\* equals the configured window size, leaving the window unchanged; otherwise it
\* returns the previous next_sequence with transmit_count = 1, and successive
\* successful calls return consecutive sequence numbers modulo 2^32.
AddFrameAtConfigured ==
    ret.op = "add" =>
        IF ret.pre.in_flight = ret.configured
        THEN ret.err = "WindowFull" /\ sw = ret.pre
        ELSE AddFrameStored

\* C17: add_frame fails with window-full exactly when in_flight equals the
\* smaller of the configured window size and the capacity W, leaving the window
\* unchanged; otherwise a frame longer than a slot (F bytes) fails with
\* payload-too-large, leaving the window unchanged, and any other frame returns
\* the previous next_sequence with transmit_count = 1, successive successful
\* calls returning consecutive sequence numbers modulo 2^32.
AddFrameAtEffective ==
    ret.op = "add" =>
        IF ret.pre.in_flight = Min(ret.configured, W)
        THEN ret.err = "WindowFull" /\ sw = ret.pre
        ELSE IF ret.size > F
        THEN ret.err = "PayloadTooLarge" /\ sw = ret.pre
        ELSE AddFrameStored

\* a window configured above its capacity refused a frame with W in flight
FullAtCapacity ==
    /\ ret.op = "add"
    /\ ret.err = "WindowFull"
    /\ ret.configured > W
    /\ ret.pre.in_flight = W

-----------------------------------------------------------------------------
(* protocol.rs, channel/receiver.rs: the receive API of one endpoint whose
   peer sends packets of one frame each, in order, over an ordered carrier *)

MaxRvPackets == 3

Last(q) == q[Len(q)]

\* the packet the receiver holds staged
StagedPacket(r) == [i \in 1..r.recv_len |-> r.recv_buf[i - 1]]

\* ghost: the packets process_incoming stages, in order, reading inq
RECURSIVE StagedBy(_, _, _)
StagedBy(p, inq, timestamp) ==
    IF inq = <<>> THEN <<>>
    ELSE Let(Protocol_handle_frame(p, Head(inq), timestamp), LAMBDA h :
         (IF Receiver_process_frame(p.receiver, Head(inq), timestamp).ready
          THEN <<StagedPacket(h.p.receiver)>> ELSE <<>>)
         \o (IF h.err # "Ok" THEN <<>> ELSE StagedBy(h.p, Tail(inq), timestamp)))

RVInit ==
    /\ pr = Protocol_new(Config)
    /\ prIn = <<>>
    /\ prLog = [staged |-> <<>>, read |-> <<>>, sent |-> 0]
    /\ ret = [op |-> "new", err |-> "Ok", data |-> <<>>, buf |-> 0, ready |-> FALSE]

RVOthers == UNCHANGED <<swVars, rmVars, raVars, engVars, sn, snNow, rw, rwGot, pc>>

\* the peer's sender writes its next packet (sender.rs send_packet, one frame)
RVArrive ==
    \E len \in 1..MaxPayload :
        /\ prLog.sent < MaxRvPackets
        /\ prIn' = Append(prIn, Frame_new_data(prLog.sent, 0, prLog.sent, 0, 1,
                                               MsgOf("s", prLog.sent, len)))
        /\ prLog' = [prLog EXCEPT !.sent = prLog.sent + 1]
        /\ UNCHANGED <<pr, ret>>
        /\ RVOthers

\* recv(carrier, dst, now) with dst of buf_len bytes
RVRecv ==
    \E buf_len \in 1..MaxPayload :
    \E r \in {Protocol_recv(pr, prIn, buf_len, 0)} :
        /\ pr' = r.p
        /\ prIn' = r.rest
        /\ prLog' = [prLog EXCEPT
                        !.staged = prLog.staged \o StagedBy(pr, prIn, 0),
                        !.read = IF r.err = "Ok" THEN Append(prLog.read, r.data)
                                 ELSE prLog.read]
        /\ ret' = [op |-> "recv", err |-> r.err, data |-> r.data, buf |-> buf_len,
                   ready |-> Protocol_process_incoming(pr, prIn, 0).p.receiver.packet_ready]
        /\ RVOthers

InitRV ==
    /\ RVInit
    /\ SWIdle /\ RMIdle /\ RAIdle /\ EngIdle
    /\ sn = <<>> /\ snNow = 0 /\ rw = <<>> /\ rwGot = {}
    /\ pc = "run"

NextRV ==
    \/ RVArrive
    \/ RVRecv

SpecRV == InitRV /\ [][NextRV]_vars

\* recv returns would-block whenever no complete packet is staged
WouldBlockUnstaged ==
    ret.op = "recv" /\ ~ret.ready => ret.err = "WouldBlock"

\* a read into a dst shorter than the staged packet fails with buffer-too-small
\* and the packet stays staged
TooSmallKeepsStaged ==
    /\ ret.op = "recv" /\ ret.ready /\ ret.buf < Len(Last(prLog.staged))
          => ret.err = "BufferTooSmall"
    /\ ret.op = "recv" /\ ret.err = "BufferTooSmall"
          => /\ pr.receiver.packet_ready
             /\ StagedPacket(pr.receiver) = Last(prLog.staged)

\* no staged packet is returned by two reads: the packets returned are staged
\* packets, in the order they were staged, each taken once
RECURSIVE IsSubSeq(_, _)
IsSubSeq(a, b) ==
    IF a = <<>> THEN TRUE
    ELSE IF b = <<>> THEN FALSE
    ELSE IF Head(a) = Head(b) THEN IsSubSeq(Tail(a), Tail(b))
    ELSE IsSubSeq(a, Tail(b))

ReturnedAtMostOnce == IsSubSeq(prLog.read, prLog.staged)

\* C18: recv returns would-block whenever no complete packet is staged; when a
\* packet is staged and dst is shorter than it, read fails with
\* buffer-too-small and the packet stays staged, so that a later read with a
\* large enough buffer returns it; each staged packet is returned by exactly
\* one successful read: the packets staged so far are those returned so far,
\* followed by the one still staged.
ReceiveApi ==
    /\ WouldBlockUnstaged
    /\ TooSmallKeepsStaged
    /\ prLog.staged = prLog.read \o (IF pr.receiver.packet_ready
                                     THEN <<StagedPacket(pr.receiver)>> ELSE <<>>)

\* one recv staged two packets and returned the second: the first staged
\* packet was returned by no read and is staged no longer
StagedNeverReturned ==
    /\ ret.op = "recv"
    /\ ret.err = "Ok"
    /\ Len(prLog.staged) = 2
    /\ prLog.read = <<prLog.staged[2]>>
    /\ prLog.staged[1] # prLog.staged[2]
    /\ prIn = <<>>
    /\ ~pr.receiver.packet_ready

-----------------------------------------------------------------------------
(* protocol.rs over a carrier whose reads or writes have begun to fail
   (transport/mod.rs).  The carrier c is [frames, rd, wr]: the frames it holds
   for the endpoint, and what its read and write calls do. *)

MaxIoFrames == 2
MaxIoSends == 1

\* write_all: a failing write returns its error; a write of zero bytes is an i/o-error
Transport_write_all(c) == IF c.wr = "ok" THEN "Ok" ELSE "IoError"

\* read: the frames held, would-block when there are none, or the carrier's error
Transport_read(c) == IF c.rd = "ok" THEN "Ok" ELSE "IoError"

\* r is what the call does over a sound carrier; with a write that fails the
\* call ends at its first write, leaving q
AtFirstWrite(r, q, c) ==
    IF r.out = <<>> THEN [p |-> r.p, out |-> <<>>, err |-> r.err, io |-> FALSE]
    ELSE IF Transport_write_all(c) = "Ok"
    THEN [p |-> r.p, out |-> r.out, err |-> r.err, io |-> FALSE]
    ELSE [p |-> q, out |-> <<>>, err |-> "IoError", io |-> TRUE]

Protocol_connect_io(p, c, timestamp) == AtFirstWrite(Protocol_connect(p, timestamp), p, c)

Protocol_accept_io(p, c, timestamp) == AtFirstWrite(Protocol_accept(p, timestamp), p, c)

Protocol_send_io(p, c, data, timestamp) ==
    AtFirstWrite(Protocol_send(p, data, timestamp),
                 [p EXCEPT !.sender = Sender_set_ack(p.sender,
                                                     p.receiver.window.expected_seq)],
                 c)

Protocol_close_io(p, c) == AtFirstWrite(Protocol_close(p), p, c)

\* handle_frame changes the engine before it writes its answer
RECURSIVE Protocol_incoming_loop_io(_, _, _, _, _)
Protocol_incoming_loop_io(p, c, inq, timestamp, out) ==
    IF inq = <<>> THEN [p |-> p, out |-> out, err |-> "Ok", rest |-> <<>>, io |-> FALSE]
    ELSE Let(Protocol_handle_frame(p, Head(inq), timestamp), LAMBDA h :
         IF h.err # "Ok"
         THEN [p |-> h.p, out |-> out, err |-> h.err, rest |-> Tail(inq), io |-> FALSE]
         ELSE IF h.out # <<>> /\ Transport_write_all(c) # "Ok"
         THEN [p |-> h.p, out |-> out, err |-> "IoError", rest |-> Tail(inq), io |-> TRUE]
         ELSE Protocol_incoming_loop_io(
                  [h.p EXCEPT !.stats.frames_received = h.p.stats.frames_received + 1],
                  c, Tail(inq), timestamp, out \o h.out))

Protocol_process_incoming_io(p, c, timestamp) ==
    IF Transport_read(c) # "Ok"
    THEN [p |-> p, out |-> <<>>, err |-> "IoError", rest |-> c.frames, io |-> TRUE]
    ELSE Protocol_incoming_loop_io(p, c, c.frames, timestamp, <<>>)

Protocol_recv_io(p, c, buf_len, timestamp) ==
    Let(Protocol_process_incoming_io(p, c, timestamp), LAMBDA i :
    IF i.err # "Ok" THEN i
    ELSE Let(Protocol_recv(i.p, <<>>, buf_len, timestamp), LAMBDA r :
         [p |-> r.p, out |-> i.out, err |-> r.err, rest |-> i.rest, io |-> FALSE]))

\* check_retransmit drops the result of its writes
Protocol_poll_io(p, c, timestamp) ==
    Let(Protocol_process_incoming_io(p, c, timestamp), LAMBDA i :
    IF i.err # "Ok" THEN i
    ELSE Let(Sender_check_retransmit(i.p.sender, timestamp), LAMBDA k :
         [p |-> [i.p EXCEPT !.sender = k.s,
                            !.receiver = Receiver_cleanup(i.p.receiver, timestamp)],
          out |-> i.out \o (IF Transport_write_all(c) = "Ok" THEN k.out ELSE <<>>),
          err |-> "Ok", rest |-> i.rest,
          io |-> k.out # <<>> /\ Transport_write_all(c) # "Ok"]))

IOInit ==
    /\ pr = Protocol_new(Config)
    /\ prIn = [frames |-> <<>>, rd |-> "ok", wr |-> "ok"]
    /\ prLog = [staged |-> <<>>, read |-> <<>>, sent |-> 0]
    /\ ret = [op |-> "new", err |-> "Ok", io |-> FALSE]

IOOthers == UNCHANGED <<swVars, rmVars, raVars, engVars, sn, snNow, rw, rwGot, pc>>

\* what the peer writes
IoFrames ==
    {Frame_new_sync(0), Frame_new_sync_ack(0, 1), Frame_new_fin(0), Frame_new_ping(0),
     Frame_new_data(pr.receiver.window.expected_seq, 0, 0, 0, 1, <<1>>)}

IOArrive ==
    \E f \in IoFrames :
        /\ prLog.sent < MaxIoFrames
        /\ prIn.rd = "ok"
        /\ prIn' = [prIn EXCEPT !.frames = Append(prIn.frames, f)]
        /\ prLog' = [prLog EXCEPT !.sent = prLog.sent + 1]
        /\ UNCHANGED <<pr, ret>>
        /\ IOOthers

\* the carrier fails: its reads, its writes (with an error or taking no bytes), or both
IOBreak ==
    \E rd \in {"ok", "error"}, wr \in {"ok", "error", "zero"} :
        /\ prIn.rd = "ok" /\ prIn.wr = "ok"
        /\ rd # "ok" \/ wr # "ok"
        /\ prIn' = [prIn EXCEPT !.rd = rd, !.wr = wr]
        /\ UNCHANGED <<pr, prLog, ret>>
        /\ IOOthers

IODone(op, r) ==
    /\ pr' = r.p
    /\ ret' = [op |-> op, err |-> r.err, io |-> r.io]
    /\ UNCHANGED prLog
    /\ IOOthers

IOConnect ==
    /\ IODone("connect", Protocol_connect_io(pr, prIn, 0))
    /\ UNCHANGED prIn

IOAccept ==
    /\ IODone("accept", Protocol_accept_io(pr, prIn, 0))
    /\ UNCHANGED prIn

IOSend ==
    /\ pr.stats.packets_sent < MaxIoSends
    /\ IODone("send", Protocol_send_io(pr, prIn, MsgOf("c", 0, 1), 0))
    /\ UNCHANGED prIn

IOProcessIncoming ==
    \E r \in {Protocol_process_incoming_io(pr, prIn, 0)} :
        /\ IODone("process_incoming", r)
        /\ prIn' = [prIn EXCEPT !.frames = r.rest]

IORecv ==
    \E r \in {Protocol_recv_io(pr, prIn, MaxPayload, 0)} :
        /\ IODone("recv", r)
        /\ prIn' = [prIn EXCEPT !.frames = r.rest]

\* the attempt counters are u8 in the source; the model stops polling at MaxTx
IOPollBound ==
    \A i \in 0..(W - 1) :
        pr.sender.retransmit.pending[i].active
            => pr.sender.retransmit.pending[i].attempts < MaxTx

IOPoll ==
    \E timestamp \in {0, Config.retransmit_timeout_ms} :
    \E r \in {Protocol_poll_io(pr, prIn, timestamp)} :
        /\ IOPollBound
        /\ IODone("poll", r)
        /\ prIn' = [prIn EXCEPT !.frames = r.rest]

IOClose ==
    /\ IODone("close", Protocol_close_io(pr, prIn))
    /\ UNCHANGED prIn

InitIO ==
    /\ IOInit
    /\ SWIdle /\ RMIdle /\ RAIdle /\ EngIdle
    /\ sn = <<>> /\ snNow = 0 /\ rw = <<>> /\ rwGot = {}
    /\ pc = "run"

NextIO ==
    \/ IOArrive
    \/ IOBreak
    \/ IOConnect
    \/ IOAccept
    \/ IOSend
    \/ IOProcessIncoming
    \/ IORecv
    \/ IOPoll
    \/ IOClose

SpecIO == InitIO /\ [][NextIO]_vars

\* C19: a carrier i/o-error is fatal to the connection.  When a carrier read
\* or write fails with an i/o-error (a write of zero bytes included) inside
\* connect, accept, send, recv, process_incoming, poll or close, the call
\* returns the error and the connection state of the engine becomes CLOSED.
IoErrorFatal ==
    ret.io => ret.err = "IoError" /\ pr.state = "Closed"

\* send on a connected engine returned the i/o-error of a write that took no
\* bytes, and the engine is still connected
ConnectedAfterIoError ==
    /\ ret.op = "send"
    /\ ret.io
    /\ ret.err = "IoError"
    /\ prIn.wr = "zero"
    /\ pr.state = "Connected"

\* the call returns the error of the carrier
IoErrorReturned == ret.io => ret.err = "IoError"

-----------------------------------------------------------------------------
(* core/checksum.rs: CRC-32 (IEEE 802.3, reflected).  A u32 is carried as the
   pair <<high 16 bits, low 16 bits>>. *)

RECURSIVE XorBits(_, _)
XorBits(a, b) ==
    IF a = 0 THEN b
    ELSE IF b = 0 THEN a
    ELSE 2 * XorBits(a \div 2, b \div 2) + ((a + b) % 2)

Xor32(a, b) == <<XorBits(a[1], b[1]), XorBits(a[2], b[2])>>
Shr32(a, n) == <<a[1] \div (2 ^ n), (a[1] % (2 ^ n)) * (2 ^ (16 - n)) + a[2] \div (2 ^ n)>>

\* 0xEDB88320
CRC32_POLYNOMIAL == <<60856, 33568>>

RECURSIVE Crc32_table_entry(_, _)
Crc32_table_entry(crc, j) ==
    IF j = 8 THEN crc
    ELSE Crc32_table_entry(IF crc[2] % 2 = 1 THEN Xor32(Shr32(crc, 1), CRC32_POLYNOMIAL)
                           ELSE Shr32(crc, 1),
                           j + 1)

CRC32_TABLE == [i \in 0..255 |-> Crc32_table_entry(<<0, i>>, 0)]

Crc32_new == <<65535, 65535>>

\* update, from byte number i of data on; s is the state before byte i, as a
\* value, so that each step is computed before the next one starts
RECURSIVE Crc32_update_from(_, _, _)
Crc32_update_from(state, data, i) ==
    IF i > Len(data) THEN state
    ELSE CHOOSE r \in {Crc32_update_from(Xor32(Shr32(s, 8),
                                               CRC32_TABLE[XorBits(s[2] % 256, data[i])]),
                                         data, i + 1) : s \in {state}} : TRUE

Crc32_update(state, data) == Crc32_update_from(state, data, 1)

Crc32_finalize(state) == Xor32(state, <<65535, 65535>>)

Crc32_compute(data) == Crc32_finalize(Crc32_update(Crc32_new, data))

-----------------------------------------------------------------------------
(* core/frame.rs: the bytes of a frame *)

VERSION == 1

FrameTypeCode ==
    [Data |-> 1, Ack |-> 2, Nack |-> 3, Ping |-> 4, Pong |-> 5, Reset |-> 6,
     WindowUpdate |-> 7, Sync |-> 8, SyncAck |-> 9, Fin |-> 10, FinAck |-> 11]

FrameType_from_u8(value) ==
    IF \E t \in DOMAIN FrameTypeCode : FrameTypeCode[t] = value
    THEN CHOOSE t \in DOMAIN FrameTypeCode : FrameTypeCode[t] = value
    ELSE "None"

to_be_bytes16(n) == <<(n \div 256) % 256, n % 256>>
to_be_bytes32(n) == <<(n \div 16777216) % 256, (n \div 65536) % 256, (n \div 256) % 256, n % 256>>
from_be_bytes16(b) == b[1] * 256 + b[2]

\* a sequence number or ack read from the wire, in the sequence space of the model;
\* 0 - 1 stands for a value the sequence space of the model does not hold
from_be_bytes_seq(b) ==
    IF b[1] = 0 /\ b[2] = 0 /\ b[3] = 0 /\ b[4] < SeqMod THEN b[4] ELSE 0 - 1

\* a header with fragment index and fragment count in each other's place
Frame_header_swapped(f) ==
    <<VERSION, FrameTypeCode[f.frame_type]>>
    \o to_be_bytes16(f.flags)
    \o to_be_bytes32(f.sequence)
    \o to_be_bytes32(f.ack)
    \o to_be_bytes16(f.packet_id)
    \o <<f.total_fragments, f.fragment_index>>
    \o to_be_bytes16(Len(f.payload))
    \o <<0, 0>>

\* bytes 0..19 of the header
Frame_header(f) ==
    <<VERSION, FrameTypeCode[f.frame_type]>>
    \o to_be_bytes16(f.flags)
    \o to_be_bytes32(f.sequence)
    \o to_be_bytes32(f.ack)
    \o to_be_bytes16(f.packet_id)
    \o <<f.fragment_index, f.total_fragments>>
    \o to_be_bytes16(Len(f.payload))
    \o <<0, 0>>

Frame_serialize(f, buf_len) ==
    IF buf_len < WireSize(f) THEN [err |-> "BufferTooSmall", bytes |-> <<>>]
    ELSE Let(Crc32_compute(Frame_header(f) \o f.payload), LAMBDA checksum :
         [err |-> "Ok",
          bytes |-> Frame_header(f) \o to_be_bytes16(checksum[1])
                    \o to_be_bytes16(checksum[2]) \o f.payload])

Frame_deserialize(buf) ==
    IF Len(buf) < FRAME_HEADER_SIZE THEN [err |-> "BufferTooSmall", frame |-> NoFrame, size |-> 0]
    ELSE IF buf[1] # VERSION THEN [err |-> "VersionMismatch", frame |-> NoFrame, size |-> 0]
    ELSE IF FrameType_from_u8(buf[2]) = "None"
    THEN [err |-> "InvalidFrame", frame |-> NoFrame, size |-> 0]
    ELSE LET payload_len == from_be_bytes16(SubSeq(buf, 17, 18))
             total_size == FRAME_HEADER_SIZE + payload_len
         IN IF Len(buf) < total_size
            THEN [err |-> "BufferTooSmall", frame |-> NoFrame, size |-> 0]
            ELSE Let(Crc32_compute(SubSeq(buf, 1, 20)
                                   \o SubSeq(buf, FRAME_HEADER_SIZE + 1, total_size)),
                     LAMBDA computed_checksum :
                 IF SubSeq(buf, 21, 24) # to_be_bytes16(computed_checksum[1])
                                          \o to_be_bytes16(computed_checksum[2])
                 THEN [err |-> "ChecksumMismatch", frame |-> NoFrame, size |-> 0]
                 ELSE [err |-> "Ok",
                       frame |-> [frame_type |-> FrameType_from_u8(buf[2]),
                                  flags |-> from_be_bytes16(SubSeq(buf, 3, 4)),
                                  sequence |-> from_be_bytes_seq(SubSeq(buf, 5, 8)),
                                  ack |-> from_be_bytes_seq(SubSeq(buf, 9, 12)),
                                  packet_id |-> from_be_bytes16(SubSeq(buf, 13, 14)),
                                  fragment_index |-> buf[15],
                                  total_fragments |-> buf[16],
                                  payload |-> SubSeq(buf, FRAME_HEADER_SIZE + 1, total_size)],
                       size |-> total_size])

-----------------------------------------------------------------------------
(* protocol.rs: process_incoming over the bytes of the carrier.  held are the
   bytes of recv_frame_buf (recv_len of them); a read of the carrier hands
   over the bytes asked for, as far as it holds them. *)

Take(s, n) == SubSeq(s, 1, Min(n, Len(s)))
Drop_(s, n) == SubSeq(s, Min(n, Len(s)) + 1, Len(s))

RECURSIVE Protocol_incoming_bytes(_, _, _, _, _)
Protocol_incoming_bytes(p, held, stream, timestamp, out) ==
    LET ret0(e, q, h, s) == [p |-> q, held |-> h, rest |-> s, err |-> e, out |-> out]
        need1 == FRAME_HEADER_SIZE - Len(held)
        held1 == IF need1 > 0 THEN held \o Take(stream, need1) ELSE held
        stream1 == IF need1 > 0 THEN Drop_(stream, need1) ELSE stream
    IN IF need1 > 0 /\ stream = <<>> THEN ret0("Ok", p, held, stream)
       ELSE IF Len(held1) < FRAME_HEADER_SIZE THEN ret0("Ok", p, held1, stream1)
       ELSE LET total_frame_len == FRAME_HEADER_SIZE + from_be_bytes16(SubSeq(held1, 17, 18))
                need2 == total_frame_len - Len(held1)
                held2 == held1 \o Take(stream1, need2)
                stream2 == Drop_(stream1, need2)
            IN IF need2 > 0 /\ total_frame_len > F THEN ret0("Panic", p, held1, stream1)
               ELSE IF Len(held2) < total_frame_len THEN ret0("Ok", p, held2, stream2)
               ELSE Let(Frame_deserialize(held2), LAMBDA d :
                    IF d.err = "Ok"
                    THEN Let(Protocol_handle_frame(p, d.frame, timestamp), LAMBDA h :
                         IF h.err # "Ok"
                         THEN [p |-> h.p, held |-> <<>>, rest |-> stream2, err |-> h.err,
                               out |-> out \o h.out]
                         ELSE Protocol_incoming_bytes(
                                  [h.p EXCEPT !.stats.frames_received =
                                                  h.p.stats.frames_received + 1],
                                  <<>>, stream2, timestamp, out \o h.out))
                    ELSE IF d.err = "ChecksumMismatch"
                    THEN Protocol_incoming_bytes(
                             [p EXCEPT !.stats.checksum_errors = p.stats.checksum_errors + 1],
                             <<>>, stream2, timestamp, out)
                    ELSE ret0(d.err, p, <<>>, stream2))

-----------------------------------------------------------------------------
(* One endpoint reading frames of which the carrier has changed a byte.  pr is
   [eng, recv_frame_buf], prIn the bytes the carrier holds, prLog the frames
   written since the last call and whether bytes of earlier frames are left. *)

MaxCkFrames == 2

\* the frames the peer writes
CkFrames ==
    {Frame_new_ping(0), Frame_new_ack(0), Frame_new_data(0, 0, 0, 0, 1, <<7>>)}

\* byte number pos (from 1) with its lowest bit flipped
Corrupt(bytes, pos) ==
    [bytes EXCEPT ![pos] = IF bytes[pos] % 2 = 0 THEN bytes[pos] + 1 ELSE bytes[pos] - 1]

CKInit ==
    /\ pr = [eng |-> Protocol_new(Config), recv_frame_buf |-> <<>>]
    /\ prIn = <<>>
    /\ prLog = [wire |-> <<>>, sent |-> 0, clean |-> TRUE]
    /\ ret = [op |-> "new", err |-> "Ok", pre |-> pr.eng, wire |-> <<>>, clean |-> TRUE]

CKOthers == UNCHANGED <<swVars, rmVars, raVars, engVars, sn, snNow, rw, rwGot, pc>>

\* the peer writes a frame; the carrier hands it on intact (pos = 0) or with
\* one byte changed
CKWrite ==
    \E f \in CkFrames :
    \E bytes \in {Frame_serialize(f, F).bytes} :
    \E pos \in 0..Len(bytes) :
        /\ prLog.sent < MaxCkFrames
        /\ prIn' = prIn \o (IF pos = 0 THEN bytes ELSE Corrupt(bytes, pos))
        /\ prLog' = [prLog EXCEPT
                        !.sent = prLog.sent + 1,
                        !.wire = Append(prLog.wire,
                                        [frame |-> f, pos |-> pos,
                                         bytes |-> IF pos = 0 THEN bytes
                                                   ELSE Corrupt(bytes, pos)])]
        /\ UNCHANGED <<pr, ret>>
        /\ CKOthers

CKProcessIncoming ==
    \E r \in {Protocol_incoming_bytes(pr.eng, pr.recv_frame_buf, prIn, 0, <<>>)} :
        /\ prLog.wire # <<>>
        /\ r.err # "Panic"
        /\ pr' = [eng |-> r.p, recv_frame_buf |-> r.held]
        /\ prIn' = r.rest
        /\ prLog' = [prLog EXCEPT !.wire = <<>>,
                                  !.clean = r.held = <<>> /\ r.rest = <<>>]
        /\ ret' = [op |-> "process_incoming", err |-> r.err, pre |-> pr.eng,
                   wire |-> prLog.wire, clean |-> prLog.clean]
        /\ CKOthers

InitCK ==
    /\ CKInit
    /\ SWIdle /\ RMIdle /\ RAIdle /\ EngIdle
    /\ sn = <<>> /\ snNow = 0 /\ rw = <<>> /\ rwGot = {}
    /\ pc = "run"

NextCK ==
    \/ CKWrite
    \/ CKProcessIncoming

SpecCK == InitCK /\ [][NextCK]_vars

\* the frames among those written whose bytes were changed (bad) or not
RECURSIVE SelectFrames(_, _)
SelectFrames(written, bad) ==
    IF written = <<>> THEN <<>>
    ELSE (IF (Head(written).pos # 0) = bad THEN <<Head(written).frame>> ELSE <<>>)
         \o SelectFrames(Tail(written), bad)

\* process_incoming has just returned, the frames it read had no bytes of
\* earlier frames before them, and each frame with a changed byte is one
\* whose CRC does not verify
ChecksumErrorsOnly ==
    /\ ret.op = "process_incoming"
    /\ prLog.wire = <<>>
    /\ ret.clean
    /\ \A i \in 1..Len(ret.wire) :
          ret.wire[i].pos # 0 => Frame_deserialize(ret.wire[i].bytes).err = "ChecksumMismatch"

\* the engine is as after the intact frames alone, with one checksum error
\* counted for each of the others
ChecksumErrorsSkipped ==
    Let(Protocol_process_incoming(ret.pre, SelectFrames(ret.wire, FALSE), 0), LAMBDA r :
        /\ ret.err = r.err
        /\ pr.eng = [r.p EXCEPT !.stats.checksum_errors =
                                  ret.pre.stats.checksum_errors
                                  + Len(SelectFrames(ret.wire, TRUE))]
        /\ pr.recv_frame_buf = <<>>
        /\ prIn = <<>>)

\* C20: checksum errors are local.  In process_incoming a frame whose CRC does
\* not verify increments checksum_errors by one, is not dispatched (sender,
\* receiver and connection state unchanged, frames_received not incremented),
\* and the frames that follow it on the carrier are still parsed and
\* dispatched in the same call.
ChecksumErrorsLocal == ChecksumErrorsOnly => ChecksumErrorsSkipped

\* the same for frames of which the two bytes of the payload length are intact
ChecksumErrorsLocalOfLength ==
    ChecksumErrorsOnly /\ (\A i \in 1..Len(ret.wire) : ret.wire[i].pos \notin {17, 18})
        => ChecksumErrorsSkipped

\* a frame whose CRC did not verify was counted, and the intact frame written
\* after it was not dispatched in the call that read both
FollowingFrameNotDispatched ==
    /\ ChecksumErrorsOnly
    /\ Len(ret.wire) = 2
    /\ ret.wire[1].pos # 0
    /\ ret.wire[2].pos = 0
    /\ pr.eng.stats.checksum_errors = ret.pre.stats.checksum_errors + 1
    /\ pr.eng.stats.frames_received = ret.pre.stats.frames_received

-----------------------------------------------------------------------------
(* Frames the decoder rejects for their version or their type tag. *)

DecoderErrors == {"InvalidFrame", "VersionMismatch"}

\* process_incoming has just returned, the frames it read had no bytes of
\* earlier frames before them, and each frame with a changed byte is one the
\* decoder rejects for its version or its type tag
DecoderErrorsOnly ==
    /\ ret.op = "process_incoming"
    /\ prLog.wire = <<>>
    /\ ret.clean
    /\ \A i \in 1..Len(ret.wire) :
          ret.wire[i].pos # 0 => Frame_deserialize(ret.wire[i].bytes).err \in DecoderErrors

\* the engine, leaving aside the count of checksum errors
SansChecksumErrors(p) == [p EXCEPT !.stats.checksum_errors = 0]

\* C21: decoder errors other than checksum are recovered at the frame
\* boundary.  A frame rejected with invalid-frame (unknown type tag) or
\* version-mismatch is discarded locally: process_incoming does not return an
\* error for it, and parsing continues with the next frame on the carrier, so
\* that the call ends as it would have with the intact frames alone.
DecoderErrorsLocal ==
    DecoderErrorsOnly =>
        Let(Protocol_process_incoming(ret.pre, SelectFrames(ret.wire, FALSE), 0), LAMBDA r :
            /\ ret.err = r.err
            /\ SansChecksumErrors(pr.eng) = SansChecksumErrors(r.p)
            /\ pr.recv_frame_buf = <<>>
            /\ prIn = <<>>)

\* process_incoming returned the decoder's error for a frame with a changed
\* version or type byte, and left the intact frame written after it unread on
\* the carrier
DecoderErrorReturned ==
    /\ DecoderErrorsOnly
    /\ Len(ret.wire) = 2
    /\ ret.wire[1].pos # 0
    /\ ret.wire[2].pos = 0
    /\ ret.err \in DecoderErrors
    /\ prIn = ret.wire[2].bytes
    /\ pr.eng = ret.pre

-----------------------------------------------------------------------------
(* protocol.rs handle_frame (Data arm), channel/receiver.rs
   process_data_frame: one endpoint whose carrier holds DATA frames of any
   sequence number, inside the receive window or not.  pr is the engine, prIn
   the frames on the carrier, prLog counts the frames written. *)

MaxOrFrames == 3

\* sequence numbers of the frames: inside the first window, just past it, and
\* half the sequence space away
OrSeqs == {0, 1, WindowSize, WindowSize + 1, SeqMod \div 2}

ORInit ==
    /\ pr = Protocol_new(Config)
    /\ prIn = <<>>
    /\ prLog = [sent |-> 0]
    /\ ret = [op |-> "new", err |-> "Ok", pre |-> pr, inq |-> <<>>, rest |-> <<>>, now |-> 0]

OROthers == UNCHANGED <<swVars, rmVars, raVars, engVars, sn, snNow, rw, rwGot, pc>>

\* a DATA frame of one fragment arrives on the carrier
ORArrive ==
    \E seq \in OrSeqs :
        /\ prLog.sent < MaxOrFrames
        /\ prIn' = Append(prIn, Frame_new_data(seq, 0, prLog.sent, 0, 1,
                                               MsgOf("s", prLog.sent, 1)))
        /\ prLog' = [prLog EXCEPT !.sent = prLog.sent + 1]
        /\ UNCHANGED <<pr, ret>>
        /\ OROthers

ORDone(op, r, timestamp) ==
    /\ prIn # <<>>
    /\ pr' = r.p
    /\ prIn' = r.rest
    /\ ret' = [op |-> op, err |-> r.err, pre |-> pr, inq |-> prIn, rest |-> r.rest,
               now |-> timestamp]
    /\ UNCHANGED prLog
    /\ OROthers

ORProcessIncoming ==
    \E r \in {Protocol_process_incoming(pr, prIn, 0)} : ORDone("process_incoming", r, 0)

ORPoll ==
    \E r \in {Protocol_poll(pr, prIn, 0)} : ORDone("poll", r, 0)

\* the application reads the staged packet
ORRead ==
    \E r \in {Receiver_read(pr.receiver, MaxPayload)} :
        /\ r.err = "Ok"
        /\ pr' = [pr EXCEPT !.receiver = r.r]
        /\ ret' = [op |-> "read", err |-> r.err, pre |-> pr, inq |-> <<>>, rest |-> <<>>,
                   now |-> 0]
        /\ UNCHANGED <<prIn, prLog>>
        /\ OROthers

InitOR ==
    /\ ORInit
    /\ SWIdle /\ RMIdle /\ RAIdle /\ EngIdle
    /\ sn = <<>> /\ snNow = 0 /\ rw = <<>> /\ rwGot = {}
    /\ pc = "run"

NextOR ==
    \/ ORArrive
    \/ ORProcessIncoming
    \/ ORPoll
    \/ ORRead

SpecOR == InitOR /\ [][NextOR]_vars

\* the receive window refuses the frame as out of range
OutOfRange(p, frame) ==
    RW_receive(p.receiver.window, frame.sequence).err = "SequenceOutOfRange"

\* the frames of inq without those that are out of range when their turn comes
RECURSIVE InRangeFrames(_, _, _)
InRangeFrames(p, inq, timestamp) ==
    IF inq = <<>> THEN <<>>
    ELSE IF OutOfRange(p, Head(inq)) THEN InRangeFrames(p, Tail(inq), timestamp)
    ELSE Let(Protocol_handle_frame(p, Head(inq), timestamp), LAMBDA h :
         <<Head(inq)>> \o (IF h.err # "Ok" THEN Tail(inq)
                           ELSE InRangeFrames(h.p, Tail(inq), timestamp)))

\* the call, made on the frames in range alone
OrExpected ==
    IF ret.op = "poll"
    THEN Protocol_poll(ret.pre, InRangeFrames(ret.pre, ret.inq, ret.now), ret.now)
    ELSE Protocol_process_incoming(ret.pre, InRangeFrames(ret.pre, ret.inq, ret.now),
                                   ret.now)

\* a frame out of range leaves the receiver as it was
OutOfRangeKeepsReceiver ==
    \A f \in {Frame_new_data(seq, 0, 0, 0, 1, <<7>>) : seq \in OrSeqs} :
        OutOfRange(pr, f) =>
            Protocol_handle_frame(pr, f, 0).p.receiver = pr.receiver

\* C22: a DATA frame whose sequence number is outside the receive window is
\* discarded locally.  The receiver state is unchanged by it, process_incoming
\* and poll do not surface sequence-out-of-range to the caller, and the frames
\* following it on the carrier are still processed: the call ends as it would
\* have ended on the other frames alone.
OutOfRangeLocal ==
    /\ OutOfRangeKeepsReceiver
    /\ ret.op \in {"process_incoming", "poll"} =>
          /\ ret.err # "SequenceOutOfRange"
          /\ ret.err = OrExpected.err
          /\ pr = OrExpected.p
          /\ ret.rest = OrExpected.rest

\* poll returned sequence-out-of-range for a frame outside the window and
\* left the frames after it unread on the carrier
OutOfRangeSurfaced ==
    /\ ret.op = "poll"
    /\ ret.err = "SequenceOutOfRange"
    /\ OutOfRange(ret.pre, Head(ret.inq))
    /\ ret.rest = Tail(ret.inq)
    /\ ret.rest # <<>>
    /\ pr.receiver = ret.pre.receiver

-----------------------------------------------------------------------------
(* protocol.rs connect, accept, send, ping: one endpoint whose application
   makes any call in any connection state, while the peer's control frames
   arrive.  pr is the engine, prIn the frames on the carrier, prLog counts the
   frames arrived and the calls that wrote to the carrier. *)

MaxPcFrames == 3
MaxPcWrites == 2

\* what the peer writes
PcFrames ==
    {Frame_new_sync(0), Frame_new_sync_ack(0, 1), Frame_new_fin(0),
     Frame_control("FinAck", 0, 0), Frame_new_ack(1)}

PCInit ==
    /\ pr = Protocol_new(Config)
    /\ prIn = <<>>
    /\ prLog = [sent |-> 0, writes |-> 0]
    /\ ret = [op |-> "new", err |-> "Ok", pre |-> pr, post |-> pr, out |-> <<>>]

PCOthers == UNCHANGED <<swVars, rmVars, raVars, engVars, sn, snNow, rw, rwGot, pc>>

PCArrive ==
    \E f \in PcFrames :
        /\ prLog.sent < MaxPcFrames
        /\ prIn' = Append(prIn, f)
        /\ prLog' = [prLog EXCEPT !.sent = prLog.sent + 1]
        /\ UNCHANGED <<pr, ret>>
        /\ PCOthers

\* a call of the API returned r
PCDone(op, r) ==
    /\ r.out # <<>> => prLog.writes < MaxPcWrites
    /\ pr' = r.p
    /\ prLog' = [prLog EXCEPT !.writes = IF r.out # <<>> THEN prLog.writes + 1
                                         ELSE prLog.writes]
    /\ ret' = [op |-> op, err |-> r.err, pre |-> pr, post |-> r.p, out |-> r.out]
    /\ PCOthers

PCConnect == \E r \in {Protocol_connect(pr, 0)} : PCDone("connect", r) /\ UNCHANGED prIn

PCAccept == \E r \in {Protocol_accept(pr, 0)} : PCDone("accept", r) /\ UNCHANGED prIn

PCSend ==
    \E len \in 1..(MaxPayload + 1) :
    \E r \in {Protocol_send(pr, MsgOf("c", prLog.writes, len), 0)} :
        PCDone("send", r) /\ UNCHANGED prIn

PCPing == \E r \in {Protocol_ping(pr, 0)} : PCDone("ping", r) /\ UNCHANGED prIn

PCClose == \E r \in {Protocol_close(pr)} : PCDone("close", r) /\ UNCHANGED prIn

PCProcessIncoming ==
    \E r \in {Protocol_process_incoming(pr, prIn, 0)} :
        /\ prIn # <<>>
        /\ pr' = r.p
        /\ prIn' = r.rest
        /\ ret' = [op |-> "process_incoming", err |-> r.err, pre |-> pr, post |-> r.p,
                   out |-> r.out]
        /\ UNCHANGED prLog
        /\ PCOthers

InitPC ==
    /\ PCInit
    /\ SWIdle /\ RMIdle /\ RAIdle /\ EngIdle
    /\ sn = <<>> /\ snNow = 0 /\ rw = <<>> /\ rwGot = {}
    /\ pc = "run"

NextPC ==
    \/ PCArrive
    \/ PCConnect
    \/ PCAccept
    \/ PCSend
    \/ PCPing
    \/ PCClose
    \/ PCProcessIncoming

SpecPC == InitPC /\ [][NextPC]_vars

\* the one connection state in which the call is allowed
RequiredState ==
    [connect |-> "Idle", accept |-> "Accepting", send |-> "Connected", ping |-> "Connected"]

\* the last call was one of the four, made in a state other than the one it
\* requires
CalledOutsideState ==
    /\ ret.op \in DOMAIN RequiredState
    /\ ret.pre.state # RequiredState[ret.op]

\* C23: state preconditions of the engine API.  connect in any state other
\* than IDLE, accept in any state other than ACCEPTING, and send or ping in
\* any state other than CONNECTED fail with invalid-state, write nothing to
\* the carrier and leave the connection state, send window and statistics
\* unchanged.
StatePreconditions ==
    CalledOutsideState =>
        /\ ret.err = "InvalidState"
        /\ ret.out = <<>>
        /\ ret.post.state = ret.pre.state
        /\ ret.post.sender.window = ret.pre.sender.window
        /\ ret.post.stats = ret.pre.stats
        /\ pr = ret.post

\* nothing else of the engine changes either
RefusedCallKeepsEngine == CalledOutsideState => ret.post = ret.pre

\* send was refused in CLOSING, with a frame of an earlier send still in the
\* send window
SendRefusedWhileClosing ==
    /\ ret.op = "send"
    /\ ret.pre.state = "Closing"
    /\ ret.pre.sender.window.in_flight > 0
    /\ ret.pre.stats.packets_sent > 0
    /\ ret.err = "InvalidState"

-----------------------------------------------------------------------------
(* transport/mod.rs write_all and BufferedTransport::flush
   (drain_write_buffer), src/channel/sender.rs transmit_pending: the loops
   that write to the carrier, one call of Transport::write per step.  pr is
   the call in progress: site, pc ("loop" or "done"), left (bytes of the
   current buffer or frame not yet taken by the carrier), pending (bytes of
   the byte stream not yet framed), free (segment slots), err, and spins, the
   passes of the loop since the carrier last took a byte, counted up to
   MaxSpins.  prIn is what the carrier answers to a write. *)

MaxWsLen == 3
MaxSpins == 2

\* the byte-stream sender: segment size, segment slots, bytes a frame adds
WsMss == 2
WsSlots == 2
WsOverhead == 1

WriteSites == {"write_all", "flush", "transmit_pending"}

\* the carrier takes bytes, or answers would-block, or writes 0 bytes
CarrierAnswers == {"progress", "WouldBlock", "Zero"}

WSInit ==
    /\ pr = [site |-> "none", pc |-> "done", left |-> 0, pending |-> 0, free |-> 0,
             spins |-> 0, err |-> "Ok"]
    /\ prIn = "progress"
    /\ prLog = [calls |-> 0]
    /\ ret = [op |-> "new"]

WSOthers == UNCHANGED <<swVars, rmVars, raVars, engVars, sn, snNow, rw, rwGot, pc, ret>>

\* the caller starts a call with len bytes to write
WSCall ==
    \E site \in WriteSites, len \in 1..MaxWsLen, free \in 0..WsSlots :
        /\ pr.pc = "done"
        /\ pr' = IF site = "transmit_pending"
                 THEN IF free = 0
                      THEN [site |-> site, pc |-> "done", left |-> 0, pending |-> len,
                            free |-> 0, spins |-> 0, err |-> "Ok"]
                      ELSE [site |-> site, pc |-> "loop",
                            left |-> Min(len, WsMss) + WsOverhead,
                            pending |-> len, free |-> free, spins |-> 0, err |-> "Ok"]
                 ELSE [site |-> site, pc |-> "loop", left |-> len, pending |-> 0,
                       free |-> 0, spins |-> 0, err |-> "Ok"]
        /\ prLog' = [calls |-> (prLog.calls + 1) % 2]
        /\ UNCHANGED prIn
        /\ WSOthers

\* the carrier changes what it answers
WSCarrier ==
    \E a \in CarrierAnswers :
        /\ a # prIn
        /\ prIn' = a
        /\ UNCHANGED <<pr, prLog>>
        /\ WSOthers

Spun(c) == [c EXCEPT !.spins = Min(c.spins + 1, MaxSpins)]
Returned(c, e) == [c EXCEPT !.pc = "done", !.err = e]

\* transport/mod.rs write_all: one pass of `while written < buf.len()`
Transport_write_all_step(c, answer, n) ==
    IF answer = "WouldBlock" THEN Returned(c, "WouldBlock")
    ELSE IF answer = "Zero" THEN Returned(c, "IoError")
    ELSE IF c.left - n = 0 THEN Returned([c EXCEPT !.left = 0, !.spins = 0], "Ok")
    ELSE [c EXCEPT !.left = c.left - n, !.spins = 0]

\* transport/mod.rs drain_write_buffer: one pass of
\* `while !self.write_buf.is_empty()`
Buffered_drain_step(c, answer, n) ==
    IF answer = "WouldBlock" THEN Returned(c, "WouldBlock")
    ELSE IF answer = "Zero" THEN Spun(c)
    ELSE IF c.left - n = 0 THEN Returned([c EXCEPT !.left = 0, !.spins = 0], "Ok")
    ELSE [c EXCEPT !.left = c.left - n, !.spins = 0]

\* src/channel/sender.rs transmit_pending: one pass of `while sent < written`,
\* and after the last one the end of the pass of
\* `while self.send_next != self.send_max`
Sender_transmit_pending_step(c, answer, n) ==
    IF answer = "WouldBlock" THEN Spun(c)
    ELSE IF answer = "Zero" THEN Returned(c, "IoError")
    ELSE IF c.left - n > 0 THEN [c EXCEPT !.left = c.left - n, !.spins = 0]
    ELSE LET seg_len == Min(c.pending, WsMss)
             pending == c.pending - seg_len
             free == c.free - 1
         IN IF pending = 0 \/ free = 0
            THEN Returned([c EXCEPT !.left = 0, !.pending = pending, !.free = free,
                                    !.spins = 0], "Ok")
            ELSE [c EXCEPT !.left = Min(pending, WsMss) + WsOverhead,
                           !.pending = pending, !.free = free, !.spins = 0]

\* the call in progress makes its next call of write
WSStep ==
    \E n \in 1..pr.left :
        /\ pr.pc = "loop"
        /\ pr' = CASE pr.site = "write_all" -> Transport_write_all_step(pr, prIn, n)
                   [] pr.site = "flush" -> Buffered_drain_step(pr, prIn, n)
                   [] OTHER -> Sender_transmit_pending_step(pr, prIn, n)
        /\ UNCHANGED <<prIn, prLog>>
        /\ WSOthers

InitWS ==
    /\ WSInit
    /\ SWIdle /\ RMIdle /\ RAIdle /\ EngIdle
    /\ sn = <<>> /\ snNow = 0 /\ rw = <<>> /\ rwGot = {}
    /\ pc = "run"

NextWS ==
    \/ WSCall
    \/ WSCarrier
    \/ WSStep

\* a call in progress keeps running: its next pass is always taken
SpecWS == InitWS /\ [][NextWS]_vars /\ WF_vars(WSStep)

Returns(site) == (pr.site = site /\ pr.pc = "loop") ~> (pr.pc = "done")

\* write_all returns
WriteAllReturns == Returns("write_all")

\* BufferedTransport::flush returns
FlushReturns == Returns("flush")

\* transmit_pending returns
TransmitPendingReturns == Returns("transmit_pending")

\* C24: every carrier write site handles the three outcomes.  On would-block
\* it returns control to the caller without busy-waiting and on a zero-length
\* write it terminates its loop, so that write_all, BufferedTransport::flush
\* and the byte-stream sender's transmit_pending all return after finitely
\* many steps, even when the carrier keeps answering would-block or 0.
WriteSitesReturn == \A site \in WriteSites : Returns(site)

\* transmit_pending is in its write loop and has gone round it MaxSpins times
\* without the carrier, which answers would-block, taking a byte
SpinningOnWouldBlock ==
    /\ pr.site = "transmit_pending"
    /\ pr.pc = "loop"
    /\ prIn = "WouldBlock"
    /\ pr.spins = MaxSpins

\* the same for drain_write_buffer and a carrier that writes 0 bytes
SpinningOnZero ==
    /\ pr.site = "flush"
    /\ pr.pc = "loop"
    /\ prIn = "Zero"
    /\ pr.spins = MaxSpins

-----------------------------------------------------------------------------
(* core/frame.rs: serialize followed by deserialize.  pr is the frame and the
   length of the buffer it is serialized into, prIn the bytes written. *)

MaxFrPayload == 2

URGENT == 4
COMPRESSED == 8
ENCRYPTED == 16

\* flags set on a frame after its construction
FrFlags == {0, URGENT, COMPRESSED, ENCRYPTED, URGENT + COMPRESSED + ENCRYPTED}

FrPayloads == UNION {[1..n -> {0, 255}] : n \in 0..MaxFrPayload}

\* the frames the constructors build
FrBuilt ==
    {Frame_new_data(seq, SeqMod - 1 - seq, 65535, i, 2, p) :
        seq \in {0, SeqMod - 1}, i \in 0..1, p \in FrPayloads}
    \cup {Frame_control(t, seq, 0) :
            t \in {"Nack", "Ping", "Pong", "Sync", "Fin"}, seq \in {1, SeqMod - 1}}
    \cup {Frame_new_ack(SeqMod - 1), Frame_new_sync_ack(1, SeqMod - 1)}

FRInit ==
    /\ pr = [frame |-> Frame_new_ack(0), buf_len |-> 0]
    /\ prIn = <<>>
    /\ prLog = <<>>
    /\ ret = [op |-> "new", err |-> "Ok", frame |-> NoFrame, size |-> 0, version |-> 0]

FROthers == UNCHANGED <<swVars, rmVars, raVars, engVars, sn, snNow, rw, rwGot, pc, prLog>>

\* serialize(buf) on a built frame, into a buffer one byte short, exact, or
\* one byte longer
FRSerialize ==
    \E f \in FrBuilt, flags \in FrFlags, slack \in {0 - 1, 0, 1} :
    \E g \in {[f EXCEPT !.flags = f.flags + flags]} :
    \E r \in {Frame_serialize(g, WireSize(g) + slack)} :
        /\ pr' = [frame |-> g, buf_len |-> WireSize(g) + slack]
        /\ prIn' = r.bytes
        /\ ret' = [op |-> "serialize", err |-> r.err, frame |-> NoFrame,
                   size |-> Len(r.bytes), version |-> 0]
        /\ FROthers

\* deserialize on the bytes written, alone or with a byte after them
FRDeserialize ==
    \E more \in {<<>>, <<9>>} :
    \E r \in {Frame_deserialize(prIn \o more)} :
        /\ ret.op = "serialize"
        /\ ret.err = "Ok"
        /\ ret' = [op |-> "deserialize", err |-> r.err, frame |-> r.frame,
                   size |-> r.size, version |-> prIn[1]]
        /\ UNCHANGED <<pr, prIn>>
        /\ FROthers

InitFR ==
    /\ FRInit
    /\ SWIdle /\ RMIdle /\ RAIdle /\ EngIdle
    /\ sn = <<>> /\ snNow = 0 /\ rw = <<>> /\ rwGot = {}
    /\ pc = "run"

NextFR ==
    \/ FRSerialize
    \/ FRDeserialize

SpecFR == InitFR /\ [][NextFR]_vars

\* serialize fails exactly when the buffer is shorter than the frame
SerializeNeedsRoom ==
    ret.op = "serialize" =>
        (ret.err = "Ok" <=> pr.buf_len >= FRAME_HEADER_SIZE + Len(pr.frame.payload))

\* C25: frame round-trip.  For a frame built by a constructor, with a payload
\* of at most 65,535 bytes and a buffer of at least 24 + len bytes,
\* deserialize(serialize(F)) succeeds, returns consumed = 24 + len, and yields
\* the same version, type, flags (URGENT, COMPRESSED and ENCRYPTED included),
\* sequence, ack, packet id, fragment index, total fragments and payload as F.
FrameRoundTrip ==
    ret.op = "deserialize" =>
        /\ pr.buf_len >= FRAME_HEADER_SIZE + Len(pr.frame.payload)
        /\ ret.err = "Ok"
        /\ ret.size = FRAME_HEADER_SIZE + Len(pr.frame.payload)
        /\ ret.version = VERSION
        /\ ret.frame.frame_type = pr.frame.frame_type
        /\ ret.frame.flags = pr.frame.flags
        /\ ret.frame.sequence = pr.frame.sequence
        /\ ret.frame.ack = pr.frame.ack
        /\ ret.frame.packet_id = pr.frame.packet_id
        /\ ret.frame.fragment_index = pr.frame.fragment_index
        /\ ret.frame.total_fragments = pr.frame.total_fragments
        /\ ret.frame.payload = pr.frame.payload

\* a last fragment with all three flags, the largest packet id and a payload
\* has made the round trip
FlaggedFragmentDecoded ==
    /\ ret.op = "deserialize"
    /\ ret.err = "Ok"
    /\ pr.frame.frame_type = "Data"
    /\ pr.frame.flags = LAST_FRAGMENT + URGENT + COMPRESSED + ENCRYPTED
    /\ pr.frame.fragment_index = 1
    /\ pr.frame.packet_id = 65535
    /\ Len(pr.frame.payload) = MaxFrPayload
    /\ ret.frame = pr.frame

-----------------------------------------------------------------------------
(* core/frame.rs deserialize on the bytes of a serialized frame of which one
   bit has been flipped.  pr is the frame, prIn its serialized bytes. *)

\* the frames serialized
BfFrames ==
    {Frame_new_ping(0), Frame_new_ack(SeqMod - 1), Frame_new_sync(1),
     Frame_new_data(0, 0, 0, 0, 1, <<7>>), Frame_new_data(1, 0, 3, 1, 2, <<0, 255>>)}

\* bit number bit (0 the lowest) of byte number pos (from 1) flipped
FlipBit(bytes, pos, bit) ==
    [bytes EXCEPT ![pos] = IF (bytes[pos] \div (2 ^ bit)) % 2 = 1
                           THEN bytes[pos] - 2 ^ bit
                           ELSE bytes[pos] + 2 ^ bit]

BFInit ==
    /\ pr = Frame_new_ack(0)
    /\ prIn = <<>>
    /\ prLog = <<>>
    /\ ret = [op |-> "new", err |-> "Ok", pos |-> 0, bit |-> 0, more |-> 0]

BFOthers == UNCHANGED <<swVars, rmVars, raVars, engVars, sn, snNow, rw, rwGot, pc, prLog>>

BFSerialize ==
    \E f \in BfFrames :
    \E r \in {Frame_serialize(f, F)} :
        /\ pr' = f
        /\ prIn' = r.bytes
        /\ ret' = [op |-> "serialize", err |-> r.err, pos |-> 0, bit |-> 0, more |-> 0]
        /\ BFOthers

\* deserialize on the bytes with one bit flipped, alone or with the bytes of
\* a following frame after them
BFDeserialize ==
    /\ ret.op = "serialize"
    /\ \E pos \in 1..Len(prIn), bit \in 0..7, more \in {<<>>, <<1, 4, 0, 0>>} :
       \E buf \in {FlipBit(prIn, pos, bit) \o more} :
       \E r \in {Frame_deserialize(buf)} :
        /\ ret' = [op |-> "deserialize", err |-> r.err, pos |-> pos, bit |-> bit,
                   more |-> Len(more)]
        /\ UNCHANGED <<pr, prIn>>
        /\ BFOthers

InitBF ==
    /\ BFInit
    /\ SWIdle /\ RMIdle /\ RAIdle /\ EngIdle
    /\ sn = <<>> /\ snNow = 0 /\ rw = <<>> /\ rwGot = {}
    /\ pc = "run"

NextBF ==
    \/ BFSerialize
    \/ BFDeserialize

SpecBF == InitBF /\ [][NextBF]_vars

\* deserialize fails on every flipped bit
BitFlipDetected == ret.op = "deserialize" => ret.err # "Ok"

\* C26: corruption detection.  For any serialized frame, flipping any single
\* bit anywhere in the serialized bytes (header bytes 0..24 or payload) makes
\* deserialize fail, and the failure is checksum-mismatch.
BitFlipChecksumMismatch == ret.op = "deserialize" => ret.err = "ChecksumMismatch"

\* the bytes deserialize reads before it verifies the CRC: version, type and
\* payload length
BeforeChecksum == {1, 2, 17, 18}

\* the failure is checksum-mismatch for a bit of any other byte
BitFlipElsewhere ==
    ret.op = "deserialize" /\ ret.pos \notin BeforeChecksum => ret.err = "ChecksumMismatch"

\* a bit of the version byte was flipped and deserialize failed with
\* version-mismatch
VersionBitFlipped ==
    /\ ret.op = "deserialize"
    /\ ret.pos = 1
    /\ ret.err = "VersionMismatch"

-----------------------------------------------------------------------------
(* buffer/ring.rs: RingBuffer<N>.  buffer is indexed from 0; data and the
   bytes read are sequences. *)

\* N of the ring buffer of the model
RbN == 3

RB_new == [buffer |-> [i \in 0..(RbN - 1) |-> 0], head |-> 0, tail |-> 0, len |-> 0]

RB_remaining(r) == RbN - r.len

RB_clear(r) == [r EXCEPT !.head = 0, !.tail = 0, !.len = 0]

\* buffer[at..at + first_chunk] = data[..first_chunk], and the rest of the
\* to_copy bytes to buffer[..second_chunk]
RB_copy_in(buffer, at, data, to_copy) ==
    LET first_chunk == Min(to_copy, RbN - at)
    IN [i \in 0..(RbN - 1) |->
           IF i >= at /\ i < at + first_chunk THEN data[i - at + 1]
           ELSE IF to_copy > first_chunk /\ i < to_copy - first_chunk
           THEN data[first_chunk + i + 1]
           ELSE buffer[i]]

\* buf[..first_chunk] = buffer[at..at + first_chunk], and the rest of the
\* to_copy bytes from buffer[..second_chunk]
RB_copy_out(buffer, at, to_copy) ==
    LET first_chunk == Min(to_copy, RbN - at)
    IN [i \in 1..to_copy |->
           IF i <= first_chunk THEN buffer[at + i - 1] ELSE buffer[i - first_chunk - 1]]

\* a write that leaves out the copy past the end of the array
RB_write_one_chunk(r, data) ==
    LET to_write == Min(Len(data), RB_remaining(r))
        first_chunk == Min(to_write, RbN - r.tail)
    IN IF to_write = 0 THEN [r |-> r, n |-> 0]
       ELSE [r |-> [r EXCEPT !.buffer = RB_copy_in(r.buffer, r.tail, data, first_chunk),
                             !.tail = (r.tail + to_write) % RbN,
                             !.len = r.len + to_write],
             n |-> to_write]

RB_write(r, data) ==
    LET to_write == Min(Len(data), RB_remaining(r))
    IN IF to_write = 0 THEN [r |-> r, n |-> 0]
       ELSE [r |-> [r EXCEPT !.buffer = RB_copy_in(r.buffer, r.tail, data, to_write),
                             !.tail = (r.tail + to_write) % RbN,
                             !.len = r.len + to_write],
             n |-> to_write]

RB_write_all(r, data) ==
    IF Len(data) > RB_remaining(r) THEN [r |-> r, err |-> "BufferFull"]
    ELSE [r |-> RB_write(r, data).r, err |-> "Ok"]

RB_peek(r, buf_len) ==
    LET to_read == Min(buf_len, r.len)
    IN IF to_read = 0 THEN [r |-> r, n |-> 0, data |-> <<>>]
       ELSE [r |-> r, n |-> to_read, data |-> RB_copy_out(r.buffer, r.head, to_read)]

RB_read(r, buf_len) ==
    LET to_read == Min(buf_len, r.len)
    IN IF to_read = 0 THEN [r |-> r, n |-> 0, data |-> <<>>]
       ELSE [r |-> [r EXCEPT !.head = (r.head + to_read) % RbN,
                             !.len = r.len - to_read],
             n |-> to_read, data |-> RB_copy_out(r.buffer, r.head, to_read)]

RB_skip(r, count) ==
    LET to_skip == Min(count, r.len)
    IN [r |-> [r EXCEPT !.head = (r.head + to_skip) % RbN, !.len = r.len - to_skip],
        n |-> to_skip]

RB_as_slices(r) ==
    IF r.len = 0 THEN <<(<<>>), (<<>>)>>
    ELSE IF r.head + r.len <= RbN
    THEN <<[i \in 1..r.len |-> r.buffer[r.head + i - 1]], (<<>>)>>
    ELSE LET first_len == RbN - r.head
             second_len == r.len - first_len
         IN <<[i \in 1..first_len |-> r.buffer[r.head + i - 1]],
              [i \in 1..second_len |-> r.buffer[i - 1]]>>

-----------------------------------------------------------------------------
(* One ring buffer under any sequence of its operations.  pr is the buffer,
   prLog the bytes written and not yet read or skipped, oldest first. *)

\* longest data written, and largest count asked for, beyond the capacity
MaxRbOver == 1

RbData == UNION {[1..n -> {1, 2}] : n \in 0..(RbN + MaxRbOver)}

RBInit ==
    /\ pr = RB_new
    /\ prIn = <<>>
    /\ prLog = <<>>
    /\ ret = [op |-> "new", n |-> 0, data |-> <<>>, ask |-> 0, err |-> "Ok",
              pre |-> RB_new, unread |-> <<>>]

RBOthers == UNCHANGED <<swVars, rmVars, raVars, engVars, sn, snNow, rw, rwGot, pc, prIn>>

RBDone(op, r, n, data, ask, err) ==
    /\ pr' = r
    /\ ret' = [op |-> op, n |-> n, data |-> data, ask |-> ask, err |-> err,
               pre |-> pr, unread |-> prLog]
    /\ RBOthers

RBWrite ==
    \E data \in RbData :
    \E w \in {RB_write(pr, data)} :
        /\ RBDone("write", w.r, w.n, data, Len(data), "Ok")
        /\ prLog' = prLog \o Take(data, RbN - Len(prLog))

RBWriteAll ==
    \E data \in RbData :
    \E w \in {RB_write_all(pr, data)} :
        /\ RBDone("write_all", w.r, 0, data, Len(data), w.err)
        /\ prLog' = IF Len(data) > RbN - Len(prLog) THEN prLog ELSE prLog \o data

RBRead ==
    \E buf_len \in 0..(RbN + MaxRbOver) :
    \E g \in {RB_read(pr, buf_len)} :
        /\ RBDone("read", g.r, g.n, g.data, buf_len, "Ok")
        /\ prLog' = Drop_(prLog, buf_len)

RBPeek ==
    \E buf_len \in 0..(RbN + MaxRbOver) :
    \E g \in {RB_peek(pr, buf_len)} :
        /\ RBDone("peek", g.r, g.n, g.data, buf_len, "Ok")
        /\ UNCHANGED prLog

RBSkip ==
    \E count \in 0..(RbN + MaxRbOver) :
    \E g \in {RB_skip(pr, count)} :
        /\ RBDone("skip", g.r, g.n, <<>>, count, "Ok")
        /\ prLog' = Drop_(prLog, count)

RBClear ==
    /\ RBDone("clear", RB_clear(pr), 0, <<>>, 0, "Ok")
    /\ prLog' = <<>>

InitRB ==
    /\ RBInit
    /\ SWIdle /\ RMIdle /\ RAIdle /\ EngIdle
    /\ sn = <<>> /\ snNow = 0 /\ rw = <<>> /\ rwGot = {}
    /\ pc = "run"

NextRB ==
    \/ RBWrite
    \/ RBWriteAll
    \/ RBRead
    \/ RBPeek
    \/ RBSkip
    \/ RBClear

SpecRB == InitRB /\ [][NextRB]_vars

\* C27: RingBuffer is a bounded FIFO.  After any sequence of write, write_all,
\* read, peek, skip and clear, len <= capacity and tail = (head + len) mod
\* capacity; write stores min(data length, remaining) bytes; the bytes
\* returned by read and peek, and the concatenation of the two as_slices views
\* (the second empty when the data does not wrap), are exactly the oldest
\* unread written bytes in write order; peek leaves head, tail and len
\* unchanged.
RingBufferFifo ==
    /\ pr.len <= RbN
    /\ pr.tail = (pr.head + pr.len) % RbN
    /\ pr.len = Len(prLog)
    /\ ret.op = "write" => ret.n = Min(Len(ret.data), RbN - ret.pre.len)
    /\ ret.op \in {"read", "peek"} =>
          /\ ret.n = Min(ret.ask, Len(ret.unread))
          /\ ret.data = Take(ret.unread, ret.ask)
    /\ RB_as_slices(pr)[1] \o RB_as_slices(pr)[2] = prLog
    /\ pr.head + pr.len <= RbN => RB_as_slices(pr)[2] = <<>>
    /\ ret.op = "peek" =>
          pr.head = ret.pre.head /\ pr.tail = ret.pre.tail /\ pr.len = ret.pre.len

\* a read returned bytes stored on both sides of the end of the array, after
\* a write that stored fewer bytes than it was given
WrappedRead ==
    /\ ret.op = "read"
    /\ ret.n = RbN
    /\ ret.pre.head > 0
    /\ ret.data = ret.unread
    /\ \E i \in 1..(RbN - 1) : ret.data[i] # ret.data[i + 1]

\* ---------------------------------------------------------------------------
\* Byte-stream receiver (src/channel/receiver.rs): a ring of capacity bytes
\* indexed by sequence number modulo capacity, a table of out-of-order segments
\* and the count of contiguous readable bytes.
\* ---------------------------------------------------------------------------

\* width of a byte-stream sequence number in the model (u32 in the source)
BsSeqBits == 4
BsSeqMod == 2 ^ BsSeqBits

\* config.max_segments and the values of config.recv_buffer_size explored
BsMaxSegments == 2
BsCapacities == {3, 4}

\* Receiver::new
StreamReceiver_new(initial_seq, capacity) ==
    [capacity |-> capacity,
     buffer |-> [j \in 1..capacity |-> 0],
     recv_next |-> initial_seq,
     readable |-> 0,
     read_pos |-> 0,
     ooo_segments |-> [k \in 1..BsMaxSegments |-> [seq |-> 0, len |-> 0, in_use |-> FALSE]],
     recv_bitmap |-> {}]

StreamReceiver_readable_len(r) == r.readable - r.read_pos

StreamReceiver_seq_to_index(r, seq) == seq % r.capacity

\* the loop of advance_recv_next: as long as an in-use entry starts at
\* recv_next, take the first such entry, step over it and free it
RECURSIVE StreamReceiver_stitch(_, _)
StreamReceiver_stitch(r, advanced) ==
    LET hits == {k \in 1..BsMaxSegments :
                    r.ooo_segments[k].in_use /\ r.ooo_segments[k].seq = r.recv_next}
    IN  IF hits = {} THEN [r |-> r, advanced |-> advanced]
        ELSE LET k == CHOOSE x \in hits : \A y \in hits : x <= y
                 len == r.ooo_segments[k].len
             IN  StreamReceiver_stitch(
                     [r EXCEPT !.recv_next = (r.recv_next + len) % BsSeqMod,
                               !.readable = r.readable + len,
                               !.ooo_segments[k].in_use = FALSE],
                     advanced + len)

\* Receiver::advance_recv_next
StreamReceiver_advance_recv_next(r, initial_len) ==
    StreamReceiver_stitch(
        [r EXCEPT !.recv_next = (r.recv_next + initial_len) % BsSeqMod,
                  !.readable = r.readable + initial_len],
        initial_len)

\* Receiver::receive
StreamReceiver_receive(r, seq, data) ==
    LET offset == (seq - r.recv_next + BsSeqMod) % BsSeqMod
        idx(i) == StreamReceiver_seq_to_index(r, (seq + i) % BsSeqMod)
        written == {idx(i) : i \in 0..(Len(data) - 1)}
        last(j) == CHOOSE i \in 0..(Len(data) - 1) :
                      /\ idx(i) = j
                      /\ \A i2 \in 0..(Len(data) - 1) : idx(i2) = j => i2 <= i
        stored == [r EXCEPT !.buffer = [j \in 1..r.capacity |->
                                           IF (j - 1) \in written
                                           THEN data[last(j - 1) + 1]
                                           ELSE r.buffer[j]],
                            !.recv_bitmap = r.recv_bitmap \cup written]
        known == \E k \in 1..BsMaxSegments :
                    r.ooo_segments[k].in_use /\ r.ooo_segments[k].seq = seq
        free == {k \in 1..BsMaxSegments : ~r.ooo_segments[k].in_use}
        slot == CHOOSE k \in free : \A k2 \in free : k <= k2
        tracked == IF offset > 0 /\ ~known /\ free # {}
                   THEN [stored EXCEPT !.ooo_segments[slot] =
                            [seq |-> seq, len |-> Len(data) % (2 ^ 16), in_use |-> TRUE]]
                   ELSE stored
    IN  IF data = <<>> THEN [r |-> r, n |-> 0, err |-> "Ok"]
        ELSE IF offset >= r.capacity
        THEN IF offset > BsSeqMod \div 2
             THEN [r |-> r, n |-> 0, err |-> "Ok"]
             ELSE [r |-> r, n |-> 0, err |-> "InvalidSequence"]
        ELSE IF offset + Len(data) > r.capacity
        THEN [r |-> r, n |-> 0, err |-> "BufferFull"]
        ELSE IF offset = 0
        THEN Let(StreamReceiver_advance_recv_next(tracked, Len(data)),
                 LAMBDA a : [r |-> a.r, n |-> a.advanced, err |-> "Ok"])
        ELSE [r |-> tracked, n |-> 0, err |-> "Ok"]

\* Receiver::read into a destination of n bytes
StreamReceiver_read(r, n) ==
    LET available == r.readable - r.read_pos
        to_read == Min(n, available)
        read_seq == (r.recv_next - r.readable + r.read_pos + 2 * BsSeqMod) % BsSeqMod
        out == [i \in 1..to_read |->
                   r.buffer[StreamReceiver_seq_to_index(r, (read_seq + i - 1) % BsSeqMod) + 1]]
        start_idx == StreamReceiver_seq_to_index(
                         r, (r.recv_next - r.readable + 2 * BsSeqMod) % BsSeqMod)
        cleared == {(start_idx + i) % r.capacity : i \in 0..(r.readable - 1)}
    IN  IF to_read = 0 THEN [r |-> r, out |-> <<>>]
        ELSE IF r.read_pos + to_read >= r.readable
        THEN [r |-> [r EXCEPT !.recv_bitmap = r.recv_bitmap \ cleared,
                              !.readable = 0, !.read_pos = 0],
              out |-> out]
        ELSE [r |-> [r EXCEPT !.read_pos = r.read_pos + to_read], out |-> out]

\* ---------------------------------------------------------------------------
\* SpecBS: a receiver of either capacity, created at a sequence number, is given
\* the segments of one stretch of L <= capacity bytes, cut at any points, in any
\* order, never more than max_segments of them ahead of recv_next; the bytes
\* are then read, in one or more calls.
\* ---------------------------------------------------------------------------

\* initial sequence numbers explored: the start of the space, the middle, and
\* the last two numbers before the sequence number wraps to 0
BsInitialSeqs == {0, 5, BsSeqMod - 2, BsSeqMod - 1}

\* byte number i (from 0) of a stretch
BsByte(i) == i + 1

\* the ways of cutting L bytes into segments: each a set of [from, len]
BsCuts(L) ==
    {{[from |-> a, len |-> (CHOOSE b \in (cuts \cup {L}) :
                               b > a /\ \A c \in (cuts \cup {L}) : c > a => b <= c) - a] :
         a \in cuts} : cuts \in {c \cup {0} : c \in SUBSET (1..(L - 1))}}

BSInit ==
    \E capacity \in BsCapacities, initial_seq \in BsInitialSeqs :
      \E L \in 1..capacity :
        \E cut \in BsCuts(L) :
          /\ pr = StreamReceiver_new(initial_seq, capacity)
          /\ prIn = cut
          /\ prLog = [start |-> initial_seq, L |-> L, given |-> {}, got |-> <<>>]
          /\ ret = [op |-> "new", n |-> 0, err |-> "Ok", offset |-> 0, pre_len |-> 0]

BSOthers == UNCHANGED <<swVars, rmVars, raVars, engVars, sn, snNow, rw, rwGot, pc>>

\* the first byte position of the stretch that no given segment covers yet
BsPrefix(given, L) ==
    CHOOSE p \in 0..L :
        /\ \A s \in given : ~(s.from <= p /\ p < s.from + s.len)
        /\ \A q \in 0..(p - 1) : \E s \in given : s.from <= q /\ q < s.from + s.len

\* the given segments that lie beyond a gap: the segments out of order
BsAhead(given, L) == {s \in given : s.from > BsPrefix(given, L)}

BSReceive ==
    /\ prLog.got = <<>>
    /\ \E s \in prIn :
         LET seq == (prLog.start + s.from) % BsSeqMod
             data == [i \in 1..s.len |-> BsByte(s.from + i - 1)]
         IN  /\ s.from # BsPrefix(prLog.given, prLog.L) =>
                    Cardinality(BsAhead(prLog.given, prLog.L)) < BsMaxSegments
             /\ \E x \in {StreamReceiver_receive(pr, seq, data)} :
                  /\ pr' = x.r
                  /\ prIn' = prIn \ {s}
                  /\ prLog' = [prLog EXCEPT !.given = prLog.given \cup {s}]
                  /\ ret' = [op |-> "receive", n |-> x.n, err |-> x.err,
                             offset |-> s.from - BsPrefix(prLog.given, prLog.L),
                             pre_len |-> StreamReceiver_readable_len(pr)]
    /\ BSOthers

BSRead ==
    /\ prIn = {}
    /\ Len(prLog.got) < prLog.L
    /\ \E n \in 1..prLog.L :
         \E x \in {StreamReceiver_read(pr, n)} :
           /\ pr' = x.r
           /\ prLog' = [prLog EXCEPT !.got = prLog.got \o x.out]
           /\ ret' = [op |-> "read", n |-> Len(x.out), err |-> "Ok", offset |-> 0,
                      pre_len |-> StreamReceiver_readable_len(pr)]
    /\ UNCHANGED prIn
    /\ BSOthers

InitBS ==
    /\ BSInit
    /\ SWIdle /\ RMIdle /\ RAIdle /\ EngIdle
    /\ sn = <<>> /\ snNow = 0 /\ rw = <<>> /\ rwGot = {}
    /\ pc = "run"

NextBS ==
    \/ BSReceive
    \/ BSRead

SpecBS == InitBS /\ [][NextBS]_vars

\* the stretch is wholly given and nothing of it has been read
BsAllGiven == prIn = {} /\ prLog.got = <<>> /\ ret.op = "receive"

\* what the claim states of one run
BsStitched ==
    /\ ret.op = "receive" /\ ret.offset > 0 =>
          /\ ret.err = "Ok" /\ ret.n = 0
          /\ StreamReceiver_readable_len(pr) = ret.pre_len
    /\ BsAllGiven =>
          /\ StreamReceiver_readable_len(pr) = prLog.L
          /\ pr.recv_next = (prLog.start + prLog.L) % BsSeqMod
          /\ \A k \in 1..BsMaxSegments : ~pr.ooo_segments[k].in_use
    /\ Len(prLog.got) >= prLog.L =>
          prLog.got = [i \in 1..prLog.L |-> BsByte(i - 1)]

\* the stretch contains the sequence number after which the numbers start
\* again at 0
BsWraps == prLog.start + prLog.L > BsSeqMod

\* C28: byte-stream receiver, out-of-order stitching.  For non-overlapping
\* segments that together cover [recv_next, recv_next + L) with L <= capacity,
\* given in any order with at most max_segments of them out of order at a
\* time, each receive of a segment not at recv_next makes no bytes readable,
\* and after the segment that closes the last gap readable_len = L, recv_next
\* has advanced by L, no out-of-order entry is in use, and read returns the L
\* bytes in sequence order.
OutOfOrderStitching == BsStitched

\* the same, for the stretches that do not wrap and for the capacities that
\* divide the size of the sequence space
StitchingWithoutWrap == (~BsWraps \/ BsSeqMod % pr.capacity = 0) => BsStitched

\* a stretch given last segment first, with max_segments segments out of order,
\* has been read back whole
ReadBackAfterReversedArrival ==
    /\ Len(prLog.got) = prLog.L
    /\ Cardinality(prLog.given) = BsMaxSegments + 1
    /\ ~BsWraps

\* a stretch that wraps, in a ring whose capacity does not divide the size of
\* the sequence space, has been read back with a byte that is not the one sent
WrappedStretchMisread ==
    /\ BsWraps
    /\ BsSeqMod % pr.capacity # 0
    /\ Len(prLog.got) = prLog.L
    /\ prLog.got # [i \in 1..prLog.L |-> BsByte(i - 1)]

\* ---------------------------------------------------------------------------
\* XTransport (src/xtransport/src/transport.rs): messages over a byte carrier
\* in packets with an "XTRP" header.  The packet codec (Packet, PacketHeader,
\* MessageHead) and TransportConfig are not among the source files; they are
\* modelled from the specification: a header of fixed size carrying the packet
\* type, the sequence number, the payload length and a CRC, and a MessageHead
\* record carrying total_length, message_id and packet_count.
\* ---------------------------------------------------------------------------

\* cells of a header in the model: type, sequence number, length, CRC
XT_HEADER_SIZE == 4
\* cells of a MessageHead record: total_length, message_id, packet_count
XT_MESSAGE_HEAD_SIZE == 3

\* PacketType
XtPacketType == [Data |-> 0, MessageHead |-> 1, MessageData |-> 2, Ack |-> 3]

\* PacketType::from_u8
XtPacketType_from_u8(b) == IF b \in {XtPacketType.Data, XtPacketType.MessageHead, XtPacketType.MessageData, XtPacketType.Ack} THEN b ELSE -1

RECURSIVE XtSum(_)
XtSum(q) == IF q = <<>> THEN 0 ELSE q[1] + XtSum(Tail(q))

\* the CRC of a packet, over its type, sequence number and payload
XtCrc(pkt_type, seq, data) == (7 * pkt_type + 3 * seq + XtSum(data) + Len(data)) % 251

\* Packet::new
XtPacket_new(pkt_type, seq, data) ==
    [pkt_type |-> pkt_type, seq |-> seq, length |-> Len(data),
     crc |-> XtCrc(pkt_type, seq, data), data |-> data]

\* PacketHeader::to_bytes followed by the payload: the buffer `combined`
XtPacket_bytes(p) == <<p.pkt_type, p.seq, p.length, p.crc>> \o p.data

\* PacketHeader::from_bytes
XtHeader_from_bytes(b) == [pkt_type |-> b[1], seq |-> b[2], length |-> b[3], crc |-> b[4]]

\* Packet::verify_crc
XtPacket_verify_crc(h, data) == h.crc = XtCrc(h.pkt_type, h.seq, data)

\* MessageHead::new(..).to_bytes() and MessageHead::from_bytes
XtMessageHead_bytes(total_length, message_id, packet_count) ==
    <<total_length, message_id, packet_count>>
XtMessageHead_from_bytes(b) ==
    [total_length |-> b[1], message_id |-> b[2], packet_count |-> b[3]]

\* u32::to_le_bytes and u32::from_le_bytes
XtLeBytes(seq) ==
    <<seq % 256, (seq \div 256) % 256, (seq \div 65536) % 256, (seq \div 16777216) % 256>>
XtFromLeBytes(b) == b[1] + 256 * b[2] + 65536 * b[3] + 16777216 * b[4]

\* config.max_payload_size, the longest message and the bytes the carrier
\* holds in each direction
XtMaxPayload == 2
XtMaxMsgLen == 5
XtCarrierCap == 3

\* data.chunks(max_payload_size)
RECURSIVE XtChunks(_)
XtChunks(data) ==
    IF data = <<>> THEN <<>>
    ELSE <<Take(data, XtMaxPayload)>> \o XtChunks(Drop_(data, XtMaxPayload))

\* send_message up to its first carrier operation: the packets to send
XTransport_send_message_plan(s, data) ==
    IF Len(data) <= XtMaxPayload
    THEN [s EXCEPT !.plan = <<[pkt_type |-> XtPacketType.Data, data |-> data]>>]
    ELSE LET packet_count == (Len(data) + XtMaxPayload - 1) \div XtMaxPayload
         IN  [s EXCEPT !.next_message_id = s.next_message_id + 1,
                       !.plan = <<[pkt_type |-> XtPacketType.MessageHead,
                                   data |-> XtMessageHead_bytes(Len(data), s.next_message_id,
                                                                packet_count)]>>
                                \o [k \in 1..Len(XtChunks(data)) |->
                                        [pkt_type |-> XtPacketType.MessageData, data |-> XtChunks(data)[k]]]]

\* send_packet up to write_all, for the next packet of the plan; with no
\* packet left, send_message goes on to flush
XTransport_send_packet(s) ==
    IF s.plan = <<>> THEN [s EXCEPT !.pc = "flush"]
    ELSE [s EXCEPT !.pc = "write",
                   !.out = XtPacket_bytes(XtPacket_new(s.plan[1].pkt_type, s.send_seq,
                                                       s.plan[1].data)),
                   !.pkt_type = s.plan[1].pkt_type,
                   !.seq = s.send_seq,
                   !.send_seq = s.send_seq + 1,
                   !.plan = Tail(s.plan)]

\* send_packet after write_all, without the wait for the acknowledgement
XTransport_send_packet_no_wait(s, wait_for_ack) == XTransport_send_packet(s)

\* send_packet after write_all
XTransport_send_packet_written(s, wait_for_ack) ==
    IF wait_for_ack /\ s.pkt_type # XtPacketType.Ack
    THEN [s EXCEPT !.pc = "header", !.inbuf = <<>>, !.want = XT_HEADER_SIZE]
    ELSE XTransport_send_packet(s)

\* send_packet after recv_packet_internal returned ack_packet
XTransport_send_packet_acked(s, h, data) ==
    IF h.pkt_type # XtPacketType.Ack THEN [s EXCEPT !.pc = "failed", !.err = "InvalidPacket"]
    ELSE IF Len(data) < 4 THEN [s EXCEPT !.pc = "failed", !.err = "InvalidPacket"]
    ELSE IF XtFromLeBytes(data) # s.seq THEN [s EXCEPT !.pc = "failed", !.err = "InvalidPacket"]
    ELSE XTransport_send_packet(s)

\* send_ack up to write_all
XTransport_send_ack(r, seq) ==
    [r EXCEPT !.pc = "write",
              !.out = XtPacket_bytes(XtPacket_new(XtPacketType.Ack, r.send_seq, XtLeBytes(seq))),
              !.send_seq = r.send_seq + 1]

\* recv_message after the acknowledgement (if any) of a verified packet
XTransport_recv_message_packet(r) ==
    IF r.kind = "single" THEN [r EXCEPT !.pc = "done", !.result = r.data]
    ELSE IF r.kind = "head"
    THEN IF Len(r.data) < XT_MESSAGE_HEAD_SIZE
         THEN [r EXCEPT !.pc = "failed", !.err = "InvalidPacket"]
         ELSE LET msg_head == XtMessageHead_from_bytes(r.data)
              IN  IF msg_head.packet_count = 0
                  THEN [r EXCEPT !.pc = "done",
                                 !.result = [k \in 1..msg_head.total_length |-> 0]]
                  ELSE [r EXCEPT !.pc = "header", !.inbuf = <<>>, !.want = XT_HEADER_SIZE,
                                 !.kind = "chunk",
                                 !.result = [k \in 1..msg_head.total_length |-> 0],
                                 !.offset = 0, !.i = 0,
                                 !.packet_count = msg_head.packet_count]
    ELSE LET to_copy == Min(Len(r.data), Len(r.result) - r.offset)
             result == [k \in 1..Len(r.result) |->
                           IF r.offset < k /\ k <= r.offset + to_copy
                           THEN r.data[k - r.offset] ELSE r.result[k]]
         IN  IF r.i + 1 = r.packet_count
             THEN [r EXCEPT !.pc = "done", !.result = result, !.offset = r.offset + to_copy,
                            !.i = r.i + 1]
             ELSE [r EXCEPT !.pc = "header", !.inbuf = <<>>, !.want = XT_HEADER_SIZE,
                            !.result = result, !.offset = r.offset + to_copy, !.i = r.i + 1]

\* recv_message after read_exact filled the payload of a packet
XTransport_recv_message_data(r, wait_for_ack) ==
    IF ~XtPacket_verify_crc(r.hdr, r.inbuf)
    THEN [r EXCEPT !.pc = "failed", !.err = "CrcMismatch"]
    ELSE IF wait_for_ack
    THEN XTransport_send_ack([r EXCEPT !.data = r.inbuf], r.hdr.seq)
    ELSE XTransport_recv_message_packet([r EXCEPT !.data = r.inbuf])

\* recv_message after read_exact filled a header
XTransport_recv_message_header(r, wait_for_ack) ==
    LET header == XtHeader_from_bytes(r.inbuf)
        pkt_type == XtPacketType_from_u8(header.pkt_type)
        kind == IF r.kind = "chunk" THEN "chunk"
                ELSE IF pkt_type = XtPacketType.Data THEN "single" ELSE "head"
        next == [r EXCEPT !.pc = "data", !.hdr = header, !.kind = kind,
                          !.inbuf = <<>>, !.want = header.length]
    IN  IF pkt_type = -1 THEN [r EXCEPT !.pc = "failed", !.err = "InvalidPacket"]
        ELSE IF r.kind = "chunk" /\ pkt_type # XtPacketType.MessageData
        THEN [r EXCEPT !.pc = "failed", !.err = "InvalidPacket"]
        ELSE IF r.kind # "chunk" /\ pkt_type \in {XtPacketType.MessageData, XtPacketType.Ack}
        THEN [r EXCEPT !.pc = "failed", !.err = "InvalidPacket"]
        ELSE IF header.length = 0 THEN XTransport_recv_message_data(next, wait_for_ack)
        ELSE next

\* recv_packet_internal, called by send_packet, after read_exact filled a
\* header or a payload
XTransport_recv_packet_internal(s) ==
    IF s.pc = "header"
    THEN LET header == XtHeader_from_bytes(s.inbuf)
             next == [s EXCEPT !.pc = "data", !.hdr = header, !.inbuf = <<>>,
                               !.want = header.length]
         IN  IF header.length > 0 THEN next
             ELSE IF ~XtPacket_verify_crc(header, <<>>)
             THEN [s EXCEPT !.pc = "failed", !.err = "CrcMismatch"]
             ELSE XTransport_send_packet_acked(next, header, <<>>)
    ELSE IF ~XtPacket_verify_crc(s.hdr, s.inbuf)
    THEN [s EXCEPT !.pc = "failed", !.err = "CrcMismatch"]
    ELSE XTransport_send_packet_acked(s, s.hdr, s.inbuf)

\* ---------------------------------------------------------------------------
\* SpecXT: one peer calls send_message(M), the other calls recv_message, over a
\* carrier that holds XtCarrierCap bytes in each direction, blocks a write when
\* it is full and a read when it is empty, and takes or gives any positive
\* number of the bytes asked for.  With wait_for_ack on, the other peer may
\* instead be one that answers each packet with a well-formed packet of its
\* choice.
\* ---------------------------------------------------------------------------

XtMessages == {[k \in 1..n |-> 10 + k] : n \in 0..XtMaxMsgLen}

\* the answers of the other peer to the packet with sequence number seq
XtReplies(seq) ==
    {XtPacket_bytes(XtPacket_new(XtPacketType.Ack, 0, XtLeBytes(seq))),
     XtPacket_bytes(XtPacket_new(XtPacketType.Ack, 0, XtLeBytes(seq) \o <<0>>)),
     XtPacket_bytes(XtPacket_new(XtPacketType.Ack, 0, XtLeBytes(seq + 1))),
     XtPacket_bytes(XtPacket_new(XtPacketType.Ack, 0, <<seq, 0, 0>>)),
     XtPacket_bytes(XtPacket_new(XtPacketType.Ack, 0, <<>>)),
     XtPacket_bytes(XtPacket_new(XtPacketType.Data, 0, XtLeBytes(seq)))}

XTInit ==
    \E M \in XtMessages, wait_for_ack \in BOOLEAN, peer \in {"recv_message", "other"} :
      /\ peer = "other" => wait_for_ack
      /\ pr = [s |-> [pc |-> "idle", plan |-> <<>>, out |-> <<>>, pkt_type |-> XtPacketType.Data,
                      seq |-> 0, send_seq |-> 0, next_message_id |-> 1,
                      inbuf |-> <<>>, want |-> 0,
                      hdr |-> XtHeader_from_bytes(<<0, 0, 0, 0>>), err |-> "Ok"],
               r |-> [pc |-> "idle", out |-> <<>>, send_seq |-> 0,
                      inbuf |-> <<>>, want |-> 0,
                      hdr |-> XtHeader_from_bytes(<<0, 0, 0, 0>>),
                      kind |-> "first", data |-> <<>>, result |-> <<>>,
                      offset |-> 0, i |-> 0, packet_count |-> 0, err |-> "Ok"]]
      /\ prIn = [ab |-> <<>>, ba |-> <<>>]
      /\ prLog = [M |-> M, wait_for_ack |-> wait_for_ack, peer |-> peer,
                  replies |-> <<>>, reply |-> <<>>]
      /\ ret = [op |-> "new"]

XTOthers == UNCHANGED <<swVars, rmVars, raVars, engVars, sn, snNow, rw, rwGot, pc>>

XTSendMessage ==
    /\ pr.s.pc = "idle"
    /\ pr' = [pr EXCEPT !.s = XTransport_send_packet(XTransport_send_message_plan(pr.s, prLog.M))]
    /\ ret' = [op |-> "send_message"]
    /\ UNCHANGED <<prIn, prLog>>
    /\ XTOthers

\* one call of write inside write_all
XTSenderWrite ==
    /\ pr.s.pc = "write"
    /\ \E n \in 1..Min(Len(pr.s.out), XtCarrierCap - Len(prIn.ab)) :
         \E s \in {[pr.s EXCEPT !.out = Drop_(pr.s.out, n)]} :
           /\ prIn' = [prIn EXCEPT !.ab = prIn.ab \o Take(pr.s.out, n)]
           /\ pr' = [pr EXCEPT !.s = IF s.out = <<>>
                                     THEN XTransport_send_packet_written(s, prLog.wait_for_ack)
                                     ELSE s]
    /\ ret' = [op |-> "write"]
    /\ UNCHANGED prLog
    /\ XTOthers

\* one call of read inside read_exact, in recv_packet_internal
XTSenderRead ==
    /\ pr.s.pc \in {"header", "data"}
    /\ \E n \in 1..Min(pr.s.want - Len(pr.s.inbuf), Len(prIn.ba)) :
         \E s \in {[pr.s EXCEPT !.inbuf = pr.s.inbuf \o Take(prIn.ba, n)]} :
           /\ prIn' = [prIn EXCEPT !.ba = Drop_(prIn.ba, n)]
           /\ IF Len(s.inbuf) < s.want
              THEN pr' = [pr EXCEPT !.s = s] /\ UNCHANGED prLog
              ELSE /\ pr' = [pr EXCEPT !.s = XTransport_recv_packet_internal(s)]
                   /\ prLog' = IF s.pc = "data"
                               THEN [prLog EXCEPT !.replies = Append(prLog.replies,
                                        [for |-> s.seq, pkt_type |-> s.hdr.pkt_type,
                                         data |-> s.inbuf])]
                               ELSE IF XtHeader_from_bytes(s.inbuf).length = 0
                               THEN [prLog EXCEPT !.replies = Append(prLog.replies,
                                        [for |-> s.seq,
                                         pkt_type |-> XtHeader_from_bytes(s.inbuf).pkt_type,
                                         data |-> <<>>])]
                               ELSE prLog
    /\ ret' = [op |-> "read"]
    /\ XTOthers

\* inner.flush, the last step of send_message
XTSenderFlush ==
    /\ pr.s.pc = "flush"
    /\ pr' = [pr EXCEPT !.s.pc = "done"]
    /\ ret' = [op |-> "flush"]
    /\ UNCHANGED <<prIn, prLog>>
    /\ XTOthers

XTSenderStep == XTSendMessage \/ XTSenderWrite \/ XTSenderRead \/ XTSenderFlush

XTRecvMessage ==
    /\ prLog.peer = "recv_message"
    /\ pr.r.pc = "idle"
    /\ pr' = [pr EXCEPT !.r.pc = "header", !.r.inbuf = <<>>, !.r.want = XT_HEADER_SIZE]
    /\ ret' = [op |-> "recv_message"]
    /\ UNCHANGED <<prIn, prLog>>
    /\ XTOthers

\* one call of read inside read_exact, in recv_message
XTReceiverRead ==
    /\ pr.r.pc \in {"header", "data"}
    /\ \E n \in 1..Min(pr.r.want - Len(pr.r.inbuf), Len(prIn.ab)) :
         \E r \in {[pr.r EXCEPT !.inbuf = pr.r.inbuf \o Take(prIn.ab, n)]} :
           /\ prIn' = [prIn EXCEPT !.ab = Drop_(prIn.ab, n)]
           /\ pr' = [pr EXCEPT !.r =
                        IF Len(r.inbuf) < r.want THEN r
                        ELSE IF r.pc = "header"
                        THEN XTransport_recv_message_header(r, prLog.wait_for_ack)
                        ELSE XTransport_recv_message_data(r, prLog.wait_for_ack)]
    /\ ret' = [op |-> "read"]
    /\ UNCHANGED prLog
    /\ XTOthers

\* one call of write inside write_all, in send_ack
XTReceiverWrite ==
    /\ pr.r.pc = "write"
    /\ \E n \in 1..Min(Len(pr.r.out), XtCarrierCap - Len(prIn.ba)) :
         \E r \in {[pr.r EXCEPT !.out = Drop_(pr.r.out, n)]} :
           /\ prIn' = [prIn EXCEPT !.ba = prIn.ba \o Take(pr.r.out, n)]
           /\ pr' = [pr EXCEPT !.r = IF r.out = <<>>
                                     THEN XTransport_recv_message_packet(r)
                                     ELSE r]
    /\ ret' = [op |-> "write"]
    /\ UNCHANGED prLog
    /\ XTOthers

XTReceiverStep == XTRecvMessage \/ XTReceiverRead \/ XTReceiverWrite

\* the peer that is not recv_message: it takes what the sender wrote and, when
\* the sender waits for an answer, writes one of its choice
XTOtherPeer ==
    /\ prLog.peer = "other"
    /\ \/ /\ prIn.ab # <<>>
          /\ prIn' = [prIn EXCEPT !.ab = <<>>]
          /\ UNCHANGED prLog
       \/ /\ pr.s.pc = "header" /\ pr.s.inbuf = <<>>
          /\ prIn.ba = <<>> /\ prLog.reply = <<>>
          /\ \E reply \in XtReplies(pr.s.seq) : prLog' = [prLog EXCEPT !.reply = reply]
          /\ UNCHANGED prIn
       \/ /\ prLog.reply # <<>>
          /\ \E n \in 1..Min(Len(prLog.reply), XtCarrierCap - Len(prIn.ba)) :
               /\ prIn' = [prIn EXCEPT !.ba = prIn.ba \o Take(prLog.reply, n)]
               /\ prLog' = [prLog EXCEPT !.reply = Drop_(prLog.reply, n)]
    /\ ret' = [op |-> "other"]
    /\ UNCHANGED pr
    /\ XTOthers

InitXT ==
    /\ XTInit
    /\ SWIdle /\ RMIdle /\ RAIdle /\ EngIdle
    /\ sn = <<>> /\ snNow = 0 /\ rw = <<>> /\ rwGot = {}
    /\ pc = "run"

NextXT ==
    \/ XTSendMessage
    \/ XTSenderWrite
    \/ XTSenderRead
    \/ XTSenderFlush
    \/ XTRecvMessage
    \/ XTReceiverRead
    \/ XTReceiverWrite
    \/ XTOtherPeer

\* each peer runs as long as its next carrier operation can complete
SpecXT == InitXT /\ [][NextXT]_vars /\ WF_vars(XTSenderStep) /\ WF_vars(XTReceiverStep)

\* both calls have returned, recv_message with the message sent
XtDelivered ==
    /\ pr.s.pc = "done"
    /\ pr.r.pc = "done" /\ pr.r.result = prLog.M

\* the answer is an ACK whose payload starts with the four bytes of the
\* sequence number of the packet it answers
XtAcknowledges(e) ==
    e.pkt_type = XtPacketType.Ack /\ Len(e.data) >= 4 /\ Take(e.data, 4) = XtLeBytes(e.for)

\* with wait_for_ack on: the packet with sequence number k is emitted only
\* after an acknowledging answer to each packet before it, each answer was
\* read for the packet sent last, and the call has failed with invalid-packet
\* exactly when the last answer was not an acknowledging one
XtAckOrder ==
    prLog.wait_for_ack =>
        /\ pr.s.send_seq <= Len(prLog.replies) + 1
        /\ \A k \in 1..Len(prLog.replies) :
              /\ prLog.replies[k].for = k - 1
              /\ k < Len(prLog.replies) => XtAcknowledges(prLog.replies[k])
              /\ pr.s.send_seq > k => XtAcknowledges(prLog.replies[k])
        /\ (prLog.replies # <<>> /\ ~XtAcknowledges(prLog.replies[Len(prLog.replies)]))
              => pr.s.pc = "failed" /\ pr.s.err = "InvalidPacket"
        /\ pr.s.pc = "failed" =>
              prLog.replies # <<>> /\ ~XtAcknowledges(prLog.replies[Len(prLog.replies)])

\* the packets a message of n bytes is sent in: one DATA packet, or one
\* MESSAGE_HEAD and ceil(n / max_payload_size) MESSAGE_DATA packets
XtPacketCount(n) ==
    IF n <= XtMaxPayload THEN 1
    ELSE 1 + (CHOOSE c \in 0..n : c * XtMaxPayload >= n /\ (c - 1) * XtMaxPayload < n)

XtPacketsOfMessage ==
    pr.s.pc = "done" => pr.s.send_seq = XtPacketCount(Len(prLog.M))

FailedOnOtherAck ==
    /\ pr.s.pc = "failed"
    /\ prLog.replies[Len(prLog.replies)].pkt_type = XtPacketType.Ack
    /\ Len(prLog.replies[Len(prLog.replies)].data) = 4

\* ---------------------------------------------------------------------------
\* SpecCR: the Sender of SpecSN, with check_retransmit recording the sender it
\* was called on and the frames check_timeouts reported.
\* ---------------------------------------------------------------------------

CRCheckRetransmit ==
    \E r \in {Sender_check_retransmit(sn, snNow)} :
    \E c \in {RM_check_timeouts(sn.retransmit, snNow)} :
       /\ SNCheckBound
       /\ sn' = r.s
       /\ ret' = [op |-> "check_retransmit", err |-> r.err, out |-> r.out, count |-> r.count,
                  reports |-> c.reports, pre |-> sn, timestamp |-> snNow]
       /\ UNCHANGED snNow
       /\ SNOthers

NextCR == SNSendPacket \/ CRCheckRetransmit \/ SNProcessAck \/ SNTick

SpecCR == InitSN /\ [][NextCR]_vars

\* the entry of the retransmit manager, and of the send window, for seq
CrPending(s, seq) ==
    CHOOSE e \in {s.retransmit.pending[i] : i \in 0..(W - 1)} : e.active /\ e.sequence = seq
CrEntry(s, seq) == SW_get_entry(s.window, seq).entry

\* the frames the call found timed out and rewrote to the carrier
CrRewritten ==
    {ret.reports[i].seq : i \in {j \in 1..Len(ret.reports) :
        ~ret.reports[j].exceeded /\ SW_get_entry(ret.pre.window, ret.reports[j].seq).some}}

\* every frame the call rewrote is marked: one more attempt, sent at now, in
\* the retransmit manager and in the send window
RewrittenFramesMarked ==
    ret.op = "check_retransmit" =>
        \A seq \in CrRewritten :
            /\ CrPending(sn, seq).attempts = CrPending(ret.pre, seq).attempts + 1
            /\ CrPending(sn, seq).last_sent = ret.timestamp
            /\ CrEntry(sn, seq).transmit_count = CrEntry(ret.pre, seq).transmit_count + 1
            /\ CrEntry(sn, seq).sent_time = ret.timestamp

\* C30: Sender::check_retransmit marks as retransmitted (attempt count + 1,
\* last-sent time := now, in the retransmit manager and in the send window)
\* only the frames that had timed out and were rewritten to the carrier in this
\* call; every pending frame that has not timed out keeps its attempt count and
\* its last-sent time, and a call in which nothing has timed out changes no
\* sender state.
MarksOnlyTimedOut ==
    ret.op = "check_retransmit" =>
        /\ \A seq \in CrRewritten :
              /\ CrPending(sn, seq).attempts = CrPending(ret.pre, seq).attempts + 1
              /\ CrPending(sn, seq).last_sent = ret.timestamp
        /\ \A seq \in Sender_pending(sn) \ CrRewritten :
              /\ CrPending(sn, seq) = CrPending(ret.pre, seq)
              /\ CrEntry(sn, seq) = CrEntry(ret.pre, seq)
        /\ ret.reports = <<>> => sn = ret.pre

\* a call at which one pending frame had timed out and another, sent later,
\* had not: the later frame was not rewritten, and its attempt count went up
FreshFrameMarked ==
    /\ ret.op = "check_retransmit"
    /\ CrRewritten # {}
    /\ \E seq \in Sender_pending(sn) \ CrRewritten :
          /\ ret.timestamp - CrPending(ret.pre, seq).last_sent < ret.pre.retransmit.timer.current_timeout
          /\ CrPending(sn, seq).attempts = CrPending(ret.pre, seq).attempts + 1

\* a call at which nothing had timed out, and which changed the sender
IdleCallChangedSender ==
    /\ ret.op = "check_retransmit"
    /\ ret.reports = <<>>
    /\ sn # ret.pre

\* ---------------------------------------------------------------------------
\* SpecRP: a Sender whose frame is never acknowledged, polled for ever.  Time
\* has no bound, so the model keeps the clock at RpBase and, when d time units
\* pass, moves every stored timestamp d back instead (not below 0): the code
\* reads a stored timestamp only in saturating_sub(now, stored), and a frame
\* as old as RpBase, the largest retransmit timeout, has timed out whatever
\* its exact age.  The u8 counters attempts and transmit_count keep their
\* width; an increment past 255 panics or wraps, as the build decides.
\* ---------------------------------------------------------------------------

RpBase == Sender_new(Config).retransmit.timer.max_timeout
RpU8 == 2 ^ 8

\* polling intervals: half the configured retransmit timeout, and twice it
RpIntervals == {Config.retransmit_timeout_ms \div 2, Config.retransmit_timeout_ms * 2}

\* writes of one frame the model counts before it stops counting
MaxRpWrites == 4

RpBack(t, d) == IF t > d THEN t - d ELSE 0

\* the sender after d time units have passed; the timestamp of a pending entry
\* that is not active is left as it is, the code reads it only after register
\* has set it anew
RpShift(s, d) ==
    [s EXCEPT !.window.entries = [i \in 0..(W - 1) |->
                 [s.window.entries[i] EXCEPT !.sent_time = RpBack(@, d)]],
              !.retransmit.pending = [i \in 0..(W - 1) |->
                 IF s.retransmit.pending[i].active
                 THEN [s.retransmit.pending[i] EXCEPT !.last_sent = RpBack(@, d)]
                 ELSE s.retransmit.pending[i]]]

\* an increment of a u8 counter went past 255
RpOverflow(s) ==
    \/ \E i \in 0..(W - 1) : s.retransmit.pending[i].attempts >= RpU8
    \/ \E i \in 0..(W - 1) : s.window.entries[i].transmit_count >= RpU8

\* the sender with its u8 counters wrapped, and without the u64 count of
\* retransmissions, which no decision of the code reads
RpWrap(s) ==
    [s EXCEPT !.window.entries = [i \in 0..(W - 1) |->
                 [s.window.entries[i] EXCEPT !.transmit_count = @ % RpU8]],
              !.retransmit.pending = [i \in 0..(W - 1) |->
                 [s.retransmit.pending[i] EXCEPT !.attempts = @ % RpU8]],
              !.retransmit.stats.retransmissions = 0]

RPInit ==
    /\ sn = Sender_new(Config)
    /\ snNow = RpBase
    /\ ret = [op |-> "new", sent |-> FALSE, writes |-> 0, rewritten |-> FALSE]
    /\ pc = "run"

RPOthers == UNCHANGED <<swVars, rmVars, raVars, engVars, rw, rwGot, protoVars>>

\* send_packet of one frame, once
RPSendPacket ==
    /\ pc = "run"
    /\ ~ret.sent
    /\ \E r \in {Sender_send_packet(sn, MsgOf("c", sn.next_packet_id, 1), snNow)} :
         /\ r.err = "Ok"
         /\ sn' = r.s
         /\ ret' = [op |-> "send", sent |-> TRUE, writes |-> 1, rewritten |-> FALSE]
    /\ UNCHANGED <<snNow, pc>>
    /\ RPOthers

\* poll, d time units after the call before it, with nothing to read from the
\* carrier: check_retransmit (the receiver holds nothing to clean up)
RPPoll ==
    /\ pc = "run"
    /\ \E d \in RpIntervals :
         \E r \in {Sender_check_retransmit(RpShift(sn, d), snNow)} :
           \/ /\ sn' = RpWrap(r.s)
              /\ ret' = [ret EXCEPT !.op = "poll",
                                    !.writes = Min(ret.writes + r.count, MaxRpWrites),
                                    !.rewritten = ret.rewritten \/ r.count > 0]
              /\ UNCHANGED pc
           \/ /\ RpOverflow(r.s)
              /\ pc' = "panicked"
              /\ ret' = [ret EXCEPT !.op = "poll"]
              /\ UNCHANGED sn
    /\ UNCHANGED snNow
    /\ RPOthers

InitRP ==
    /\ RPInit
    /\ rw = <<>> /\ rwGot = {} /\ ProtoIdle /\ SWIdle /\ RMIdle /\ RAIdle /\ EngIdle

NextRP == RPSendPacket \/ RPPoll

\* the application keeps calling poll
SpecRP == InitRP /\ [][NextRP]_vars /\ WF_vars(RPPoll)

\* the frame is counted as failed
RpFailed == sn.retransmit.stats.failed_frames > 0

\* the frame is written, first transmission included, at most max_retransmit
\* times
TransmittedAtMostMax == ret.writes <= Config.max_retransmit

\* a frame that is sent is later given up or the program has stopped
SentFrameGivenUp == ret.sent ~> (RpFailed \/ pc = "panicked")

\* C31: retransmission makes progress under polling.  If a DATA frame is sent
\* and never acknowledged, and the application keeps calling poll with
\* strictly increasing now at any polling interval, then the frame is
\* eventually rewritten to the carrier, it is transmitted at most
\* max_retransmit times in total, and it is eventually counted in
\* failed_frames.
RetransmissionProgress ==
    /\ ret.sent ~> ret.rewritten
    /\ [](ret.writes <= Config.max_retransmit)
    /\ ret.sent ~> RpFailed

\* the frame has been polled more often than a frame may be transmitted, at
\* the short interval each time: it was never rewritten, it is not counted as
\* failed, and its attempt count is past max_retransmit
PolledButNeverRewritten ==
    /\ ret.op = "poll" /\ pc = "run"
    /\ ~ret.rewritten /\ ~RpFailed
    /\ \E i \in 0..(W - 1) :
          /\ sn.retransmit.pending[i].active
          /\ sn.retransmit.pending[i].attempts > Config.max_retransmit + 1
          /\ sn.retransmit.pending[i].last_sent = RpBase

----------------------------------------------------------------------------
(* SendWindow::ack_cumulative called with any sequence number, on windows   *)
(* that start at 0 or just before the sequence number wraps                 *)

MaxAkOps == 5

AKInit ==
    \E ws \in {WindowSize, W}, s0 \in InitialSeqs :
        /\ sw = SendWindow_new(ws, s0)
        /\ swOps = 0
        /\ ret = [op |-> "new", pre |-> SendWindow_new(ws, s0), seq |-> 0, acked |-> 0]

AKOthers == UNCHANGED <<rmVars, raVars, engVars, sn, snNow, rw, rwGot, protoVars, pc>>

AKAddFrame ==
    /\ swOps < MaxAkOps
    /\ \E r \in {SW_add_frame(sw, Frame_new_data(sw.next_seq, 0, 0, 0, 1, <<1>>), 0)} :
         /\ r.err = "Ok"
         /\ sw' = r.w
         /\ ret' = [op |-> "add_frame", pre |-> sw, seq |-> r.seq, acked |-> 0]
    /\ swOps' = swOps + 1
    /\ AKOthers

AKAckSelective ==
    /\ swOps < MaxAkOps
    /\ \E seq \in Sender_in_window([window |-> sw]) :
         /\ sw' = SW_ack_selective(sw, seq).w
         /\ ret' = [op |-> "ack_selective", pre |-> sw, seq |-> seq, acked |-> 0]
    /\ swOps' = swOps + 1
    /\ AKOthers

AKAckCumulative ==
    /\ swOps < MaxAkOps
    /\ \E ack_seq \in Seqs :
         \E r \in {SW_ack_cumulative(sw, ack_seq)} :
           /\ sw' = r.w
           /\ ret' = [op |-> "ack_cumulative", pre |-> sw, seq |-> ack_seq, acked |-> r.acked]
    /\ swOps' = swOps + 1
    /\ AKOthers

InitAK ==
    /\ AKInit
    /\ RMIdle /\ RAIdle /\ EngIdle
    /\ sn = <<>> /\ snNow = 0 /\ rw = <<>> /\ rwGot = {} /\ ProtoIdle
    /\ pc = "run"

NextAK ==
    \/ AKAddFrame
    \/ AKAckSelective
    \/ AKAckCumulative

SpecAK == InitAK /\ [][NextAK]_vars

\* the sequence numbers ack_cumulative(ack_seq) steps over in w: from
\* base_seq up to and including ack_seq, and not beyond next_seq
AkCovered(w, ack_seq) ==
    {WrapAdd(w.base_seq, k) :
        k \in 0..(Min(WrapSub(ack_seq, w.base_seq) + 1, WrapSub(w.next_seq, w.base_seq)) - 1)}

\* of these, the ones whose entry is in use and not acked
AkRetired(w, ack_seq) ==
    {seq \in AkCovered(w, ack_seq) : w.entries[seq % W].in_use /\ ~w.entries[seq % W].acked}

\* what the claim states of a call with ack_seq not before base_seq
AkRetires ==
    /\ ret.acked = Cardinality(AkRetired(ret.pre, ret.seq))
    /\ sw.in_flight = SatSub(ret.pre.in_flight, ret.acked)
    /\ sw.base_seq = WrapAdd(ret.pre.base_seq, Cardinality(AkCovered(ret.pre, ret.seq)))
    /\ WrapSub(sw.base_seq, ret.pre.base_seq) <= WrapSub(ret.pre.next_seq, ret.pre.base_seq)
    /\ sw.next_seq = ret.pre.next_seq
    /\ \A i \in 0..(W - 1) :
          sw.entries[i] =
              IF \E seq \in AkRetired(ret.pre, ret.seq) : seq % W = i
              THEN [ret.pre.entries[i] EXCEPT !.acked = TRUE, !.in_use = FALSE]
              ELSE ret.pre.entries[i]

----------------------------------------------------------------------------
(* The pending table of a RetransmitManager over the life of its entries:  *)
(* register with consecutive sequence numbers, acknowledge,               *)
(* acknowledge_cumulative, check_timeouts and mark_retransmitted in any    *)
(* order, without reset                                                    *)

MaxLcReg == 2
MaxLcNow == 3
LcSeqs == 0..(MaxLcReg - 1)

LCInit ==
    /\ rm = RetransmitManager_new(2, RetransmitTimer_new(100, 1000, 2))
    /\ rmK = 0
    /\ rmLog = <<>>
    /\ rmNow = 0
    /\ rmSeq = 0
    /\ ret = [op |-> "new", pre |-> rm, seq |-> 0, err |-> "Ok"]

LCOthers == UNCHANGED <<rmK, rmLog, rmSeq, swVars, raVars, engVars, sn, snNow, rw, rwGot,
                        protoVars, pc>>

\* register, until MaxLcReg frames have been registered
LCRegister ==
    /\ rm.stats.frames_sent < MaxLcReg
    /\ \E seq \in {rm.stats.frames_sent} :
         \E r \in {RM_register(rm, seq, rmNow)} :
           /\ rm' = r.m
           /\ ret' = [op |-> "register", pre |-> rm, seq |-> seq, err |-> r.err]
    /\ UNCHANGED rmNow
    /\ LCOthers

LCAcknowledge ==
    /\ \E seq \in LcSeqs :
         /\ rm' = RM_acknowledge(rm, seq, rmNow).m
         /\ ret' = [op |-> "acknowledge", pre |-> rm, seq |-> seq, err |-> "Ok"]
    /\ UNCHANGED rmNow
    /\ LCOthers

LCAcknowledgeCumulative ==
    /\ \E seq \in LcSeqs :
         /\ rm' = RM_acknowledge_cumulative(rm, seq, rmNow)
         /\ ret' = [op |-> "acknowledge_cumulative", pre |-> rm, seq |-> seq, err |-> "Ok"]
    /\ UNCHANGED rmNow
    /\ LCOthers

LCCheckTimeouts ==
    /\ rm' = RM_check_timeouts(rm, rmNow).m
    /\ ret' = [op |-> "check_timeouts", pre |-> rm, seq |-> 0, err |-> "Ok"]
    /\ UNCHANGED rmNow
    /\ LCOthers

LCMarkRetransmitted ==
    /\ \A i \in 0..(W - 1) : rm.pending[i].attempts <= rm.max_attempts
    /\ \E seq \in LcSeqs :
         \E r \in {RM_mark_retransmitted(rm, seq, rmNow)} :
           /\ rm' = r.m
           /\ ret' = [op |-> "mark_retransmitted", pre |-> rm, seq |-> seq, err |-> r.err]
    /\ UNCHANGED rmNow
    /\ LCOthers

LCTick ==
    /\ rmNow < MaxLcNow * 100
    /\ rmNow' = rmNow + 100
    /\ ret' = [op |-> "tick", pre |-> rm, seq |-> 0, err |-> "Ok"]
    /\ UNCHANGED rm
    /\ LCOthers

InitLC ==
    /\ LCInit
    /\ SWIdle /\ RAIdle /\ EngIdle
    /\ sn = <<>> /\ snNow = 0 /\ rw = <<>> /\ rwGot = {} /\ ProtoIdle
    /\ pc = "run"

NextLC ==
    \/ LCRegister
    \/ LCAcknowledge
    \/ LCAcknowledgeCumulative
    \/ LCCheckTimeouts
    \/ LCMarkRetransmitted
    \/ LCTick

SpecLC == InitLC /\ [][NextLC]_vars

LcActive(m) == {i \in 0..(W - 1) : m.pending[i].active}

\* the entries that left the pending table in the last call
LcLeft == LcActive(ret.pre) \ LcActive(rm)

\* the entries a check_timeouts call at rmNow finds timed out with their
\* attempts used up
LcExceeded ==
    {i \in LcActive(ret.pre) :
        /\ SatSub(rmNow, ret.pre.pending[i].last_sent) >= ret.pre.timer.current_timeout
        /\ ret.pre.pending[i].attempts >= ret.pre.max_attempts}

\* C33: retransmit entry lifecycle.  Each registered frame leaves the pending
\* table exactly once, by acknowledgement (successful_deliveries + 1) or by a
\* timeout found with attempts >= max_attempts (failed_frames + 1); a timeout
\* with attempts < max_attempts keeps it active; without reset, frames_sent =
\* successful_deliveries + failed_frames + pending_count, and pending_count is
\* the number of active entries, at every call boundary.
EntryLifecycle ==
    /\ rm.stats.frames_sent =
          rm.stats.successful_deliveries + rm.stats.failed_frames + rm.count
    /\ rm.count = Cardinality(LcActive(rm))
    /\ ret.op \in {"acknowledge", "acknowledge_cumulative"} =>
          /\ rm.stats.successful_deliveries =
                ret.pre.stats.successful_deliveries + Cardinality(LcLeft)
          /\ rm.stats.failed_frames = ret.pre.stats.failed_frames
          /\ ret.op = "acknowledge" =>
                /\ Cardinality(LcLeft) <= 1
                /\ \A i \in LcLeft : ret.pre.pending[i].sequence = ret.seq
                /\ (\E i \in LcActive(ret.pre) : ret.pre.pending[i].sequence = ret.seq)
                      => LcLeft # {}
    /\ ret.op = "check_timeouts" =>
          /\ LcLeft = LcExceeded
          /\ rm.stats.failed_frames = ret.pre.stats.failed_frames + Cardinality(LcLeft)
          /\ rm.stats.successful_deliveries = ret.pre.stats.successful_deliveries
    /\ ret.op \in {"register", "mark_retransmitted", "tick"} =>
          /\ LcLeft = {}
          /\ rm.stats.failed_frames = ret.pre.stats.failed_frames
          /\ rm.stats.successful_deliveries = ret.pre.stats.successful_deliveries
    /\ ret.op = "register" =>
          /\ ret.err = "Ok" =>
                /\ Cardinality(LcActive(rm)) = Cardinality(LcActive(ret.pre)) + 1
                /\ rm.stats.frames_sent = ret.pre.stats.frames_sent + 1
          /\ ret.err # "Ok" => rm = ret.pre

\* two frames registered; one timed out, was retransmitted and timed out
\* again with its attempts used up, and was counted as failed; the other timed
\* out once, stayed pending and was acknowledged afterwards
OneFailedOneDelivered ==
    /\ ret.op = "acknowledge"
    /\ Cardinality(LcLeft) = 1
    /\ \A i \in LcLeft : ret.pre.pending[i].last_sent = 0 /\ rmNow >= 300
    /\ rm.stats.failed_frames = 1
    /\ rm.stats.retransmissions = 1
    /\ rm.stats.successful_deliveries = 1
    /\ rm.count = 0

----------------------------------------------------------------------------
(* A Reassembler offered fragments of more packets than it has entries,    *)
(* at clock values short of, at and past the reassembly timeout            *)

MaxSaNow == 2
SaStep == EvTimeout \div 2
SaIds == 0..E

SAInit ==
    /\ ra = Reassembler_new(1, EvTimeout)
    /\ raMsg = <<>>
    /\ raFed = {}
    /\ raLast = <<>>
    /\ raOut = <<>>
    /\ raNow = 0
    /\ ret = [op |-> "new", n |-> 0, id |-> 0, total |-> 0, err |-> "Ok", pre |-> ra]

SAOthers == UNCHANGED <<raMsg, raFed, raLast, raOut, swVars, rmVars, engVars,
                        sn, snNow, rw, rwGot, protoVars, pc>>

\* the payload is one zero byte: slot acquisition does not look at it
SAProcessFrame ==
    \E id \in SaIds, total \in {2} :
    \E idx \in 0..(total - 1) :
    \E r \in {RA_process_frame(ra, Frame_new_data(id, 0, id, idx, total, <<0>>),
                               raNow)} :
        /\ ra' = r.r
        /\ ret' = [op |-> "process", n |-> idx, id |-> id, total |-> total,
                   err |-> r.err, pre |-> ra]
        /\ UNCHANGED raNow
        /\ SAOthers

SATakeCompleted ==
    \E id \in SaIds :
    \E t \in {RA_take_completed(ra, id, N)} :
        /\ t.err = "Ok"
        /\ ra' = t.r
        /\ ret' = [op |-> "take", n |-> Len(t.data), id |-> id, total |-> 0,
                   err |-> t.err, pre |-> ra]
        /\ UNCHANGED raNow
        /\ SAOthers

SATick ==
    /\ raNow < MaxSaNow * SaStep
    /\ raNow' = raNow + SaStep
    /\ ret' = [op |-> "tick", n |-> 0, id |-> 0, total |-> 0, err |-> "Ok", pre |-> ra]
    /\ UNCHANGED ra
    /\ SAOthers

InitSA == SAInit /\ sn = <<>> /\ snNow = 0 /\ rw = <<>> /\ rwGot = {} /\ ProtoIdle
          /\ SWIdle /\ RMIdle /\ EngIdle /\ pc = "run"

NextSA == SAProcessFrame \/ SATakeCompleted \/ SATick

SpecSA == InitSA /\ [][NextSA]_vars

\* the last call was process_frame with a fragment of a multi-fragment packet
\* that had no entry
SaNewPacket ==
    /\ ret.op = "process"
    /\ ret.total > 1
    /\ \A i \in InUse(ret.pre) : ret.pre.entries[i].packet_id # ret.id

\* the entries that were at least the reassembly timeout old at the call
SaOld == {i \in InUse(ret.pre) :
             raNow - ret.pre.entries[i].start_time >= ret.pre.timeout}

\* the slots whose entry the call replaced or changed
SaTouched == {i \in 0..(E - 1) : ra.entries[i] # ret.pre.entries[i]}

\* slot i holds a fresh entry for the packet of the call, with nothing but
\* the fragment of the call in it
SaFresh(i) ==
    /\ ra.entries[i].in_use
    /\ ra.entries[i].packet_id = ret.id
    /\ ra.entries[i].start_time = raNow
    /\ ra.entries[i].total_fragments = ret.total
    /\ ra.entries[i].received_fragments = {ret.n}
    /\ ra.entries[i].received_count = 1

\* C34: reassembly slot acquisition.  For a fragment of a multi-fragment
\* packet with no existing entry, process_frame uses a free slot if there is
\* one; otherwise it recycles a slot whose entry is at least the reassembly
\* timeout old, discarding that entry's fragments and leaving active_count as
\* it is; otherwise it fails with buffer-full and leaves every entry unchanged.
\* An entry that has not timed out is never evicted to make room.
SlotAcquisition ==
    /\ SaNewPacket /\ InUse(ret.pre) # 0..(E - 1) =>
          /\ ret.err = "Ok"
          /\ \E i \in (0..(E - 1)) \ InUse(ret.pre) : SaTouched = {i} /\ SaFresh(i)
          /\ ra.active_count = ret.pre.active_count + 1
    /\ SaNewPacket /\ InUse(ret.pre) = 0..(E - 1) /\ SaOld # {} =>
          /\ ret.err = "Ok"
          /\ \E i \in SaOld : SaTouched = {i} /\ SaFresh(i)
          /\ ra.active_count = ret.pre.active_count
    /\ SaNewPacket /\ InUse(ret.pre) = 0..(E - 1) /\ SaOld = {} =>
          /\ ret.err = "BufferFull"
          /\ ra = ret.pre
    /\ ret.op = "process" =>
          \A i \in InUse(ret.pre) \ SaOld :
              /\ ra.entries[i].in_use
              /\ ra.entries[i].packet_id = ret.pre.entries[i].packet_id
              /\ ra.entries[i].start_time = ret.pre.entries[i].start_time
              /\ ret.pre.entries[i].received_fragments \subseteq
                    ra.entries[i].received_fragments

\* with every slot in use, one entry exactly the timeout old and another
\* younger, a fragment of a new packet took the slot of the old one
OldSlotRecycled ==
    /\ SaNewPacket
    /\ InUse(ret.pre) = 0..(E - 1)
    /\ \E i \in SaOld :
          /\ raNow - ret.pre.entries[i].start_time = ret.pre.timeout
          /\ SaFresh(i)
          /\ ret.pre.entries[i].received_count > 0
    /\ InUse(ret.pre) \ SaOld # {}

\* with every slot in use and no entry old enough, a fragment of a new packet
\* was refused
RefusedWhileYoung ==
    /\ SaNewPacket
    /\ InUse(ret.pre) = 0..(E - 1)
    /\ SaOld = {}
    /\ raNow > 0
    /\ ret.err = "BufferFull"

----------------------------------------------------------------------------
(* The two engines with Protocol::reset(): either application may reset    *)
(* its engine at any call boundary and connect again.  ret counts the      *)
(* resets and keeps the engine as the last reset left it.                  *)

MaxResets == 2

RSInit ==
    /\ EngInit
    /\ ret = [resets |-> 0, e |-> "c", pre |-> Protocol_new(Config),
              post |-> Protocol_new(Config)]

Reset(e) ==
    /\ ret.resets < MaxResets
    /\ eng' = [eng EXCEPT ![e] = Protocol_reset(eng[e])]
    /\ ret' = [resets |-> ret.resets + 1, e |-> e, pre |-> eng[e],
               post |-> Protocol_reset(eng[e])]
    /\ acked' = {}
    /\ UNCHANGED <<wire, now, drops, sentLog, gotLog, wireLog>>
    /\ UNCHANGED <<swVars, rmVars, raVars, sn, snNow, rw, rwGot, protoVars, pc>>

InitRS == RSInit /\ SWIdle /\ RMIdle /\ RAIdle
          /\ sn = <<>> /\ snNow = 0 /\ rw = <<>> /\ rwGot = {} /\ ProtoIdle /\ pc = "run"

NextRS ==
    \/ Connect("c")
    \/ Accept("s")
    \/ Send("c")
    \/ \E e \in Engines : ProcessIncoming(e)
    \/ Recv("s")
    \/ Drop("s")
    \/ Tick
    \/ \E e \in Engines : Reset(e)

SpecRS == InitRS /\ [][NextRS]_vars

\* what the accessors of an engine and of its sender and receiver show
RsView(p) ==
    [state |-> p.state,
     can_send |-> p.state = "Connected" /\ ~SW_is_full(p.sender.window),
     has_data |-> p.receiver.packet_ready,
     in_flight |-> p.sender.window.in_flight,
     next_seq |-> p.sender.window.next_seq,
     base_seq |-> p.sender.window.base_seq,
     pending_count |-> p.sender.retransmit.count,
     current_timeout |-> p.sender.retransmit.timer.current_timeout,
     retransmit_stats |-> p.sender.retransmit.stats,
     stats |-> p.stats,
     expected_seq |-> p.receiver.window.expected_seq,
     reassembling |-> p.receiver.reassembler.active_count]

\* C35: reset restores the initial state.  After Protocol::reset() following
\* any sequence of operations the engine is indistinguishable from a freshly
\* created one with the same configuration: state IDLE, empty send window with
\* sequence 0, no pending retransmissions and the retransmit timeout back at
\* the configured value, no staged packet, and no in-progress reassembly
\* entries, so that a fragment received before the reset never completes a
\* packet after it.
ResetRestores ==
    /\ ret.resets > 0 =>
          /\ ret.post.state = "Idle"
          /\ ret.post.sender.window = SendWindow_new(Config.window_size, 0)
          /\ ret.post.sender.retransmit.count = 0
          /\ \A i \in 0..(W - 1) : ~ret.post.sender.retransmit.pending[i].active
          /\ ret.post.sender.retransmit.timer.current_timeout = Config.retransmit_timeout_ms
          /\ ~ret.post.receiver.packet_ready
          /\ InUse(ret.post.receiver.reassembler) = {}
          /\ RsView(ret.post) = RsView(Protocol_new(Config))
    /\ \A i \in 1..Len(gotLog["s"]) : gotLog["s"][i] \in Range(sentLog["c"])

\* the parts of the statement that the reset does bring about
ResetParts ==
    ret.resets > 0 =>
          /\ ret.post.state = "Idle"
          /\ ret.post.sender.window = SendWindow_new(Config.window_size, 0)
          /\ ret.post.sender.retransmit.count = 0
          /\ \A i \in 0..(W - 1) : ~ret.post.sender.retransmit.pending[i].active
          /\ ~ret.post.receiver.packet_ready
          /\ ret.post.stats = ProtocolStats_default
          /\ ret.post.receiver.window = ReceiveWindow_new(Config.window_size, 0)

\* the engine was reset while it held the first fragment of a packet, and kept
\* it; after the reset it delivered a message nobody sent, made of that
\* fragment and the second fragment of a later message
StaleFragmentDelivered ==
    /\ ret.resets > 0
    /\ ret.e = "s"
    /\ InUse(ret.post.receiver.reassembler) # {}
    /\ \E i \in 1..Len(gotLog["s"]) : gotLog["s"][i] \notin Range(sentLog["c"])

\* the engine was reset after an acknowledgement had set the base of its
\* retransmit timer, and the timeout stayed at the measured value
TimeoutNotConfigured ==
    /\ ret.resets > 0
    /\ ret.post.sender.retransmit.timer.current_timeout # Config.retransmit_timeout_ms

\* the engine was reset with frames counted in its retransmit statistics, and
\* the counts stayed
StatsKept ==
    /\ ret.resets > 0
    /\ ret.post.sender.retransmit.stats # Protocol_new(Config).sender.retransmit.stats

----------------------------------------------------------------------------
(* The receiving engine with process_incoming and recv called apart: the   *)
(* peer's packets arrive on the carrier, process_incoming handles every    *)
(* frame the carrier holds, recv handles the rest and reads                *)

SGProcessIncoming ==
    \E r \in {Protocol_process_incoming(pr, prIn, 0)} :
        /\ pr' = r.p
        /\ prIn' = r.rest
        /\ prLog' = [prLog EXCEPT !.staged = prLog.staged \o StagedBy(pr, prIn, 0)]
        /\ ret' = [op |-> "process_incoming", err |-> r.err, data |-> <<>>,
                   buf |-> Len(StagedBy(pr, prIn, 0)), ready |-> r.p.receiver.packet_ready]
        /\ RVOthers

NextSG ==
    \/ RVArrive
    \/ SGProcessIncoming
    \/ RVRecv

SpecSG == InitRV /\ [][NextSG]_vars

\* C36: no completed packet is lost in the receiver's staging buffer.  A packet
\* that has been completed and staged is never overwritten or dropped before
\* the application reads it; if one process_incoming call completes two packets
\* before recv is called, both are subsequently returned by recv.
NoStagedPacketLost ==
    \A i \in 1..Len(prLog.staged) :
        \/ i <= Len(prLog.read) /\ prLog.read[i] = prLog.staged[i]
        \/ /\ i = Len(prLog.read) + 1
           /\ i = Len(prLog.staged)
           /\ pr.receiver.packet_ready
           /\ StagedPacket(pr.receiver) = prLog.staged[i]

\* a packet returned by recv is a packet that was staged, and is returned once
ReadWereStaged ==
    /\ IsSubSeq(prLog.read, prLog.staged)
    /\ pr.receiver.packet_ready => StagedPacket(pr.receiver) = Last(prLog.staged)

\* one process_incoming call completed two packets with nothing staged before
\* it; the staging buffer holds the second, and the first has not been read
TwoCompletedOneStaged ==
    /\ ret.op = "process_incoming"
    /\ ret.err = "Ok"
    /\ ret.buf = 2
    /\ Len(prLog.staged) = 2
    /\ prLog.read = <<>>
    /\ pr.receiver.packet_ready
    /\ StagedPacket(pr.receiver) = prLog.staged[2]
    /\ prLog.staged[1] # prLog.staged[2]

----------------------------------------------------------------------------
(* A Sender driven through all the calls that touch its two tables:        *)
(* send_packet, send_ping, process_ack, process_selective_ack and          *)
(* check_retransmit, as the caller's clock moves on                        *)

MaxTcFrames == 3
MaxTcNow == 1

TCSendPacket ==
    \E len \in MsgLens :
        \E r \in {Sender_send_packet(sn, MsgOf("c", sn.next_packet_id, len), snNow)} :
           /\ sn.retransmit.stats.frames_sent < MaxTcFrames
           /\ sn' = r.s
           /\ ret' = [op |-> "send", err |-> r.err, out |-> r.out, frames |-> r.frames,
                      exceeded |-> {}, len |-> len]
           /\ UNCHANGED snNow
           /\ SNOthers

TCTick ==
    /\ snNow < MaxTcNow * 100
    /\ snNow' = snNow + 100
    /\ ret' = [op |-> "tick", err |-> "Ok", out |-> <<>>, frames |-> 0,
               exceeded |-> {}, len |-> 0]
    /\ UNCHANGED sn
    /\ SNOthers

TCSendPing ==
    \E r \in {Sender_send_ping(sn, snNow)} :
       /\ sn.retransmit.stats.frames_sent < MaxTcFrames
       /\ sn' = r.s
       /\ ret' = [op |-> "ping", err |-> r.err, out |-> r.out, frames |-> 0,
                  exceeded |-> {}, len |-> 0]
       /\ UNCHANGED snNow
       /\ SNOthers

TCProcessSelectiveAck ==
    \E seq \in Sender_in_window(sn) \cup Sender_pending(sn) :
       /\ sn' = Sender_process_selective_ack(sn, seq, snNow)
       /\ ret' = [op |-> "selective_ack", err |-> "Ok", out |-> <<>>, frames |-> 0,
                  exceeded |-> {}, len |-> 0]
       /\ UNCHANGED snNow
       /\ SNOthers

NextTC ==
    \/ TCSendPacket
    \/ TCSendPing
    \/ SNProcessAck
    \/ TCProcessSelectiveAck
    \/ SNCheckRetransmit
    \/ TCTick

SpecTC == InitSN /\ [][NextTC]_vars

\* the active entries of the retransmit table holding sequence number q
TcPendingSlots(q) ==
    {i \in 0..(W - 1) : sn.retransmit.pending[i].active
                        /\ sn.retransmit.pending[i].sequence = q}

\* C37: sender table consistency.  At every call boundary of Sender the set of
\* sequence numbers pending in the retransmit manager equals the set of in-use,
\* unacked sequence numbers in the send window, and no sequence number is
\* pending twice; across send_packet, send_ping, process_ack,
\* process_selective_ack and check_retransmit.
SenderTablesAgree ==
    /\ Sender_pending(sn) = Sender_in_window(sn)
    /\ \A q \in Sender_pending(sn) : Cardinality(TcPendingSlots(q)) = 1

\* a ping and the data frame sent after it are pending under one sequence
\* number, which the window holds once
PendingTwice ==
    /\ ret.op = "send"
    /\ ret.err = "Ok"
    /\ \E q \in Sender_in_window(sn) : Cardinality(TcPendingSlots(q)) = 2

\* check_retransmit gave a frame up: it is pending no longer, and still in use
\* and unacked in the window
FailedLeftInWindow ==
    /\ ret.op = "check"
    /\ ret.exceeded # {}
    /\ ret.exceeded \subseteq Sender_in_window(sn) \ Sender_pending(sn)

\* a ping is pending under a sequence number the window does not hold
PingOnlyPending ==
    /\ ret.op = "ping"
    /\ ret.err = "Ok"
    /\ Sender_pending(sn) \ Sender_in_window(sn) # {}

----------------------------------------------------------------------------
(* A Receiver handed DATA frames one at a time: frames of single- and      *)
(* multi-fragment packets, of more packets than the reassembler has        *)
(* entries, with fragment indexes up to and past the last, first           *)
(* transmissions and retransmissions.  prLog.failed is the sequence number *)
(* of the last frame that ended in an error of the reassembler, if any.    *)

MaxReSeq == 4
MaxReFragments == 3
ReErrors == {"BufferFull", "BufferTooSmall", "InvalidFragmentIndex"}
ReNone == [some |-> FALSE, seq |-> 0]

REInit ==
    /\ pr = Receiver_new(Config)
    /\ prIn = <<>>
    /\ prLog = [failed |-> ReNone]
    /\ ret = [op |-> "new", err |-> "Ok", seq |-> 0, ready |-> FALSE,
              window |-> pr.window, same |-> TRUE, again |-> FALSE]

REOthers == UNCHANGED <<prIn, swVars, rmVars, raVars, engVars, sn, snNow, rw, rwGot, pc>>

\* the packet of a frame began at the frame's sequence number or at the one
\* before, and is numbered by it; a single-fragment frame has index 0;
\* ret.window is the receive window before the call, ret.same says whether the
\* call left the receiver as it was
REProcessFrame ==
    \E seq \in 0..MaxReSeq, total \in 1..MaxReFragments :
    \E id \in {seq, seq - 1} \cap Nat, idx \in 0..(IF total = 1 THEN 0 ELSE total) :
    \E r \in {Receiver_process_frame(pr, Frame_new_data(seq, 0, id, idx, total, <<0>>), 0)} :
        /\ pr' = r.r
        /\ prLog' = [failed |-> IF r.err \in ReErrors THEN [some |-> TRUE, seq |-> seq]
                                ELSE prLog.failed]
        /\ ret' = [op |-> "process", err |-> r.err, seq |-> seq, ready |-> r.ready,
                   window |-> pr.window, same |-> (r.r = pr),
                   again |-> (prLog.failed.some /\ prLog.failed.seq = seq)]
        /\ REOthers

RERead ==
    \E r \in {Receiver_read(pr, N)} :
        /\ r.err = "Ok"
        /\ pr' = r.r
        /\ ret' = [op |-> "read", err |-> r.err, seq |-> 0, ready |-> FALSE,
                   window |-> pr.window, same |-> FALSE, again |-> FALSE]
        /\ UNCHANGED prLog
        /\ REOthers

InitRE ==
    /\ REInit
    /\ SWIdle /\ RMIdle /\ RAIdle /\ EngIdle
    /\ sn = <<>> /\ snNow = 0 /\ rw = <<>> /\ rwGot = {}
    /\ pc = "run"

NextRE == REProcessFrame \/ RERead

SpecRE == InitRE /\ [][NextRE]_vars

\* C38: receiver error atomicity.  If Receiver::process_frame returns an error
\* for a DATA frame (reassembler buffer-full, buffer-too-small or invalid
\* fragment index), the receive window is left unchanged, so that a later
\* retransmission of the same sequence number is again classified as new
\* rather than dropped as a duplicate.
ErrorLeavesWindow ==
    ret.op = "process" /\ ret.err \in ReErrors =>
        /\ pr.window = ret.window
        /\ RW_receive(pr.window, ret.seq).new

\* a frame refused by the window itself leaves the whole receiver as it was
WindowErrorLeavesReceiver ==
    ret.op = "process" /\ ret.err = "SequenceOutOfRange" => ret.same

\* with both reassembly entries in use, the first fragment of another packet
\* ended in buffer-full, and its sequence number is marked received
MarkedOnBufferFull ==
    /\ ret.op = "process"
    /\ ret.err = "BufferFull"
    /\ pr.window # ret.window
    /\ pr.window.received[ret.seq % W]
    /\ ~RW_receive(pr.window, ret.seq).new

\* the frame of a sequence number that had ended in an error came again and was
\* dropped as a duplicate: the call returned Ok(false) and changed nothing
RetransmissionDropped ==
    /\ ret.op = "process"
    /\ ret.again
    /\ ret.err = "Ok"
    /\ ~ret.ready
    /\ ret.same
    /\ pr.window.received[ret.seq % W]

----------------------------------------------------------------------------
(* process_incoming over headers whose payload-length field holds any      *)
(* value, up to and past what recv_frame_buf can take.  pr is [eng,        *)
(* recv_frame_buf], prIn the bytes the carrier holds, prLog the length     *)
(* fields written.  A header comes whole or short of its last byte, with   *)
(* the first payload bytes or without.  An index past the end of a buffer  *)
(* panics: pc = "panicked" and the call does not return.                   *)

MaxFbFrames == 2
FbPayload == 2

\* payload lengths: of a frame without payload, within the buffer, the largest
\* the buffer takes, the first it does not, and the largest of the field
FbLengths == {0, FbPayload, F - FRAME_HEADER_SIZE, F - FRAME_HEADER_SIZE + 1, 2 ^ 16 - 1}

\* the header of f with len in the payload-length field
FbHeader(f, len) ==
    Let(Frame_serialize(f, F).bytes, LAMBDA bytes :
        [i \in 1..FRAME_HEADER_SIZE |->
            IF i = 17 THEN to_be_bytes16(len)[1]
            ELSE IF i = 18 THEN to_be_bytes16(len)[2]
            ELSE bytes[i]])

FBInit ==
    /\ pr = [eng |-> Protocol_new(Config), recv_frame_buf |-> <<>>]
    /\ prIn = <<>>
    /\ prLog = [lengths |-> <<>>]
    /\ ret = [op |-> "new", err |-> "Ok", lengths |-> <<>>]

FBOthers == UNCHANGED <<swVars, rmVars, raVars, engVars, sn, snNow, rw, rwGot>>

\* the carrier takes the first cut bytes of a header and the payload after it
FBWrite ==
    \E f \in {Frame_new_ping(0), Frame_new_data(0, 0, 0, 0, 1, <<>>)}, len \in FbLengths :
    \E cut \in {FRAME_HEADER_SIZE - 1, FRAME_HEADER_SIZE, FRAME_HEADER_SIZE + FbPayload} :
        /\ pc = "run"
        /\ Len(prLog.lengths) < MaxFbFrames
        /\ prIn' = prIn \o Take(FbHeader(f, len) \o [i \in 1..Min(len, FbPayload) |-> 0], cut)
        /\ prLog' = [lengths |-> Append(prLog.lengths, len)]
        /\ UNCHANGED <<pr, ret, pc>>
        /\ FBOthers

FBProcessIncoming ==
    \E r \in {Protocol_incoming_bytes(pr.eng, pr.recv_frame_buf, prIn, 0, <<>>)} :
        /\ pc = "run"
        /\ prIn # <<>>
        /\ pr' = [eng |-> r.p, recv_frame_buf |-> r.held]
        /\ prIn' = r.rest
        /\ pc' = IF r.err = "Panic" THEN "panicked" ELSE "run"
        /\ ret' = [op |-> "process_incoming", err |-> r.err, lengths |-> prLog.lengths]
        /\ UNCHANGED prLog
        /\ FBOthers

InitFB ==
    /\ FBInit
    /\ SWIdle /\ RMIdle /\ RAIdle /\ EngIdle
    /\ sn = <<>> /\ snNow = 0 /\ rw = <<>> /\ rwGot = {}
    /\ pc = "run"

NextFB == FBWrite \/ FBProcessIncoming

SpecFB == InitFB /\ [][NextFB]_vars

\* C39: process_incoming stays within its frame buffer.  For every header that
\* can arrive from the carrier, including one whose payload-length field
\* exceeds what the buffer takes behind the header, the call returns normally
\* (Ok or an error) and never reads or copies past the end of the frame buffer.
StaysWithinFrameBuffer ==
    /\ pc = "run"
    /\ Len(pr.recv_frame_buf) <= F
    /\ ret.op = "process_incoming" => ret.err # "Panic"

\* with one header on the carrier, announcing no more than the buffer takes,
\* the call returns and holds no more than the buffer takes
ReturnsWithinCapacity ==
    (Len(prLog.lengths) = 1 /\ prLog.lengths[1] <= F - FRAME_HEADER_SIZE)
        => /\ pc = "run"
           /\ Len(pr.recv_frame_buf) <= F
           /\ ret.op = "process_incoming" => ret.err \in {"Ok", "BufferTooSmall"}

\* a header announcing one byte more than the buffer takes has been read, and
\* the call panicked on the slice for the payload
PanickedOnOversizeLength ==
    /\ pc = "panicked"
    /\ ret.op = "process_incoming"
    /\ ret.err = "Panic"
    /\ \E i \in 1..Len(ret.lengths) : ret.lengths[i] = F - FRAME_HEADER_SIZE + 1
    /\ \A i \in 1..Len(ret.lengths) : ret.lengths[i] < 2 ^ 16 - 1

----------------------------------------------------------------------------
(* The byte-stream receiver under any interleaving of receive and read.    *)
(* The peer's stream is longer than the ring; its segments come in any     *)
(* order and again.  prLog.got is what the reads have returned so far,     *)
(* ret.unread what was readable and not yet read before the last call.     *)

MaxBiStream == 6
MaxBiSegment == 2
BiCapacity == 4

\* the bytes read would return if asked for all that are readable
BiUnread(r) == StreamReceiver_read(r, StreamReceiver_readable_len(r)).out

BIInit ==
    \E initial_seq \in {0, BsSeqMod - 2} :
        /\ pr = StreamReceiver_new(initial_seq, BiCapacity)
        /\ prIn = {}
        /\ prLog = [start |-> initial_seq, got |-> <<>>]
        /\ ret = [op |-> "new", n |-> 0, err |-> "Ok", unread |-> <<>>]

BIReceive ==
    \E from \in 0..(MaxBiStream - 1), len \in 1..MaxBiSegment :
    \E x \in {StreamReceiver_receive(pr, (prLog.start + from) % BsSeqMod,
                                     [i \in 1..len |-> BsByte(from + i - 1)])} :
        /\ from + len <= MaxBiStream
        /\ pr' = x.r
        /\ ret' = [op |-> "receive", n |-> x.n, err |-> x.err, unread |-> BiUnread(pr)]
        /\ UNCHANGED <<prIn, prLog>>
        /\ BSOthers

BIRead ==
    \E n \in 1..BiCapacity :
    \E x \in {StreamReceiver_read(pr, n)} :
        /\ Len(prLog.got) < MaxBiStream
        /\ pr' = x.r
        /\ prLog' = [prLog EXCEPT !.got = prLog.got \o x.out]
        /\ ret' = [op |-> "read", n |-> Len(x.out), err |-> "Ok", unread |-> BiUnread(pr)]
        /\ UNCHANGED prIn
        /\ BSOthers

InitBI ==
    /\ BIInit
    /\ SWIdle /\ RMIdle /\ RAIdle /\ EngIdle
    /\ sn = <<>> /\ snNow = 0 /\ rw = <<>> /\ rwGot = {}
    /\ pc = "run"

NextBI == BIReceive \/ BIRead

SpecBI == InitBI /\ [][NextBI]_vars

\* a is the beginning of b
BiIsPrefix(a, b) == Len(a) <= Len(b) /\ \A i \in 1..Len(a) : a[i] = b[i]

\* C40: the byte-stream receiver never clobbers unread data.  For any
\* interleaving of receive and read, readable_len never exceeds capacity,
\* receive never overwrites bytes that have become readable and have not yet
\* been read, and the concatenation of all bytes returned by read is a prefix
\* of the byte stream in sequence order.
NeverClobbersUnread ==
    /\ StreamReceiver_readable_len(pr) <= pr.capacity
    /\ ret.op = "receive" => BiIsPrefix(ret.unread, BiUnread(pr))
    /\ \A i \in 1..Len(prLog.got) : prLog.got[i] = BsByte(i - 1)

\* with the ring full of unread bytes, receive took the segment that follows
\* them: it overwrote unread bytes and more bytes count as readable than the
\* ring holds
UnreadOverwritten ==
    /\ ret.op = "receive"
    /\ ret.err = "Ok"
    /\ ret.n > 0
    /\ Len(ret.unread) = pr.capacity
    /\ ~BiIsPrefix(ret.unread, BiUnread(pr))
    /\ StreamReceiver_readable_len(pr) > pr.capacity

\* a read returned a byte that is not the next byte of the stream
ReadOutOfOrder ==
    /\ ret.op = "read"
    /\ \E i \in 1..Len(prLog.got) : prLog.got[i] # BsByte(i - 1)

====
